---- MODULE Spec2Model ----
(***************************************************************************)
(* The agent orchestration loop of src/src/agent.ts (class Agent) run      *)
(* against the tool registry of src/src/tools.ts.  The Model Client, the   *)
(* hooks and the tools' executables are the environment: every outcome     *)
(* they can produce is a nondeterministic choice.                          *)
(*                                                                         *)
(* One action is one stretch of Agent.run between two suspension points    *)
(* (or one for-loop step); pc is the position of the run in flight.        *)
(***************************************************************************)
EXTENDS Integers, Sequences, FiniteSets, TLC

\* ------------------------------------------------------------------ bounds
\* What the environment does in one behaviour: the top-level run calls the CLI
\* makes plus the functionCalls the Model Client emits.
MaxWork == 3
\* Largest maxIterations an Agent is configured with.
MaxIter == 2

\* ---------------------------------------------------------------- registry
\* Faulty variant: delete_file is registered without its requiresConfirmation flag.
toolsDeleteFileUnflagged ==
    [n \in {"read_file", "write_file", "list_directory",
            "delete_file", "delete_directory"} |->
        [definition |-> [name |-> n],
         requiresConfirmation |-> n \in {"write_file", "delete_directory"}]]

\* tools.ts: the exported ToolsMap: each key with the definition (the schema,
\* known by its declared name) and the flag of its entry.
tools ==
    [n \in {"read_file", "write_file", "list_directory",
            "delete_file", "delete_directory"} |->
        [definition |-> [name |-> n],
         requiresConfirmation |->
            n \in {"write_file", "delete_file", "delete_directory"}]]

\* config.tools left out: this.tools is undefined (no key is `in` it).
NoTools ==
    [n \in {} |-> [definition |-> [name |-> n], requiresConfirmation |-> FALSE]]

\* A ToolsMap (agent.ts 10-14) of two entries whose definitions have the
\* same declared name.
TwiceDeclared ==
    [n \in {"read_file", "read_copy"} |->
        [definition |-> [name |-> "read_file"],
         requiresConfirmation |-> FALSE]]

\* config.systemInstruction of a caller that sets it, and the default of
\* the constructor (agent.ts 40).
CustomInstruction == "Answer briefly."
DefaultInstruction == "You are a helpful assistant."

\* A functionCall whose name is undefined (functionCall.name ?? "unknown").
NoName == "<undefined>"

\* Names the model may put in a functionCall: every registered name, a name
\* that is not registered, and no name at all.
RequestNames == DOMAIN tools \cup {"nonexistent_tool", NoName}

\* ------------------------------------------------------------ environment
\* The user's prompt strings.
UserTexts == {"Hello"}

\* response.text of a reply without function calls.
ResponseTexts == {"Done", "Response"}

\* functionCall.args: a mapping of parameter name to value.
ArgValues == {[file_path |-> "/test/file"]}

FunctionCalls == [name : RequestNames, args : ArgValues]

CallSeqs(most) == UNION {[1..n -> FunctionCalls] : n \in 1..most}

\* createMockResponse / GenerateContentResponse: candidates[0].content is the
\* Content to append (absent: hasContent FALSE), functionCalls is read off
\* its parts.
TextResponse(t) ==
    [hasContent |-> TRUE, text |-> t, functionCalls |-> <<>>]
CallResponse(calls) ==
    [hasContent |-> TRUE, text |-> "", functionCalls |-> calls]
EmptyResponse ==
    [hasContent |-> FALSE, text |-> "", functionCalls |-> <<>>]

Responses(most) ==
    {TextResponse(t) : t \in ResponseTexts}
    \cup {CallResponse(c) : c \in CallSeqs(most)}
    \cup {EmptyResponse}

\* The Content of a response: its function calls as parts, else its text.
\* Faulty variant: the Content carries the role of the caller.
ContentOfAsUser(resp) ==
    [role |-> "user",
     parts |-> IF Len(resp.functionCalls) > 0
               THEN [k \in 1..Len(resp.functionCalls) |->
                        [functionCall |-> resp.functionCalls[k]]]
               ELSE <<[text |-> resp.text]>>]
ContentOf(resp) ==
    [role |-> "model",
     parts |-> IF Len(resp.functionCalls) > 0
               THEN [k \in 1..Len(resp.functionCalls) |->
                        [functionCall |-> resp.functionCalls[k]]]
               ELSE <<[text |-> resp.text]>>]

\* What a tool's executable can do: return a value or throw an Error whose
\* message is raw.
\* A message is the sequence of its fragments; includes() looks for one.
RawMessages == {<<"Tool failed">>}
ToolOutcomes ==
    {[threw |-> FALSE, value |-> "fnResult"]}
    \cup {[threw |-> TRUE, value |-> m] : m \in RawMessages}

VARIABLES
    \* Agent fields (agent.ts 26-33)
    this_tools, contents, maxIterations, onToolCall, confirmAction,
    systemInstruction,
    \* config.tools was given: this.tools is an object, not undefined
    toolsDefined,
    \* AgentConfig key the caller passes (part_001 150); Agent has no such field
    onMaxIterationsReached,
    \* the run in flight
    pc, input, iteration, response, idx, functionResponseParts,
    \* how the last run ended
    outcome,
    \* history of the current top-level run
    events,
    \* what the environment has used of its budgets
    started, requested,
    \* the array the caller holds from its last getHistory()
    history,
    \* the file system the tools work on, the last tool call made on it with
    \* its outcome, and the number of tool calls made
    fs, last, ops,
    \* the run calls in flight at once on one Agent, each with its frame, and
    \* for each Turn of contents the run call that appended it
    frames, owners

vars == <<this_tools, contents, maxIterations, onToolCall, confirmAction,
          systemInstruction, toolsDefined, onMaxIterationsReached, pc, input, iteration, response, idx,
          functionResponseParts, outcome, events, started, requested,
          history, fs, last, ops, frames, owners>>

config == <<this_tools, maxIterations, onToolCall, confirmAction,
            systemInstruction, toolsDefined, onMaxIterationsReached>>

fsvars == <<fs, last, ops>>

concvars == <<frames, owners>>

\* The frame of the run the CLI awaits, its history and the array it holds.
agentframe == <<pc, input, iteration, response, idx, functionResponseParts,
                outcome, events, history>>

\* ------------------------------------------------------------------ helpers
\* Object.keys(this.tools ?? {}) in insertion order (tools.ts 330-356).
ToolOrder ==
    <<"read_file", "write_file", "list_directory", "delete_file",
      "delete_directory", "read_copy">>
Keys(t) == SelectSeq(ToolOrder, LAMBDA n : n \in DOMAIN t)

\* message.includes(s)
Includes(message, s) == \E k \in 1..Len(message) : message[k] = s

\* args.file_path ?? args.directory_path ?? "unknown"
PathOf(args) ==
    IF "file_path" \in DOMAIN args THEN args.file_path
    ELSE IF "directory_path" \in DOMAIN args THEN args.directory_path
    ELSE "unknown"

\* Faulty variant: a message that was translated is translated again.
formatErrorTwice(message, name, args) ==
    LET once ==
          IF Includes(message, "ENOENT") \/ Includes(message, "no such file")
          THEN <<"Error: File or directory not found at '", PathOf(args),
                 "'. Please verify the path exists.">>
          ELSE IF Includes(message, "EACCES")
                  \/ Includes(message, "permission denied")
          THEN <<"Error: Permission denied. Cannot access the specified path.">>
          ELSE IF Includes(message, "EISDIR")
          THEN <<"Error: Expected a file but found a directory.">>
          ELSE <<"Error in ", name, ": ">> \o message
    IN  <<"Error in ", name, ": ">> \o once

\* Agent.formatError
formatError(message, name, args) ==
    IF Includes(message, "ENOENT") \/ Includes(message, "no such file")
    THEN <<"Error: File or directory not found at '", PathOf(args),
           "'. Please verify the path exists.">>
    ELSE IF Includes(message, "EACCES") \/ Includes(message, "permission denied")
    THEN <<"Error: Permission denied. Cannot access the specified path.">>
    ELSE IF Includes(message, "EISDIR")
    THEN <<"Error: Expected a file but found a directory.">>
    ELSE <<"Error in ", name, ": ">> \o message

\* The result recorded for a denied confirmation (agent.ts 117).
CancelledResult == [key |-> "error", val |-> <<"Action cancelled by user.">>]

\* The result recorded for a name that is not in the registry (agent.ts 142).
NotFoundResult(name) ==
    [key |-> "error",
     val |-> <<"Tool '", name, "' not found. Available tools: ">>
             \o Keys(this_tools)]

\* try { result = {result: fn(...)} } catch { result = {error: formatError} }
ExecResult(out, name, args) ==
    IF out.threw
    THEN [key |-> "error", val |-> formatError(out.value, name, args)]
    ELSE [key |-> "result", val |-> <<out.value>>]

\* Faulty variant: the Part is put in front of the collected Parts.
PushFront(parts, part) == <<part>> \o parts

\* functionResponseParts.push(part)
Push(parts, part) == Append(parts, part)

ResponsePart(name, result) ==
    [functionResponse |-> [name |-> name, response |-> result]]

\* functionCall.name ?? "unknown"
ToolNameOf(fc) == IF fc.name = NoName THEN "unknown" ELSE fc.name

\* const toolName = functionCall.name ?? "unknown" of the loop's current call
toolName == ToolNameOf(response.functionCalls[idx])

\* this.tools && toolName in this.tools
Registered(name) == name \in DOMAIN this_tools

\* tool.requiresConfirmation && this.confirmAction
NeedsConfirm(name) ==
    this_tools[name].requiresConfirmation /\ confirmAction

\* Faulty variant: the escape hatch compares with > instead of >=.
LimitReachedOffByOne(it) == it > maxIterations

\* The guard of the escape hatch (agent.ts 68).
LimitReached(it) == it >= maxIterations

NoOutcome == [kind |-> "none", response |-> EmptyResponse, error |-> "", n |-> 0]

\* Faulty variant: run returns the response of the round before.
ReturnedStale(resp) ==
    [kind |-> "returned", response |-> response, error |-> "", n |-> 0]

\* return response (agent.ts 154)
Returned(resp) == [kind |-> "returned", response |-> resp, error |-> "", n |-> 0]
Thrown(msg, n) == [kind |-> "thrown", response |-> EmptyResponse, error |-> msg, n |-> n]

ExceededMsg == "Agent exceeded maximum iterations"

TextInput(t) == [isText |-> TRUE, text |-> t, parts |-> <<>>]
PartsInput(ps) == [isText |-> FALSE, text |-> "", parts |-> ps]

\* agent.ts 79-82: Object.values(this.tools).map(tool => tool.definition),
\* undefined without a registry.
NoDeclarations == [defined |-> FALSE, list |-> <<>>]
functionDeclarations ==
    IF toolsDefined
    THEN [defined |-> TRUE,
          list |-> [i \in 1..Len(Keys(this_tools)) |->
                      this_tools[Keys(this_tools)[i]].definition]]
    ELSE NoDeclarations

\* Faulty variant: the list is passed whenever there is a registry, empty
\* or not.
toolsOptionOfAnyRegistry ==
    IF functionDeclarations.defined
    THEN <<[functionDeclarations |-> functionDeclarations.list]>>
    ELSE <<>>

\* agent.ts 89-91: functionDeclarations?.length ? [{functionDeclarations}]
\* : undefined; here the one-element list, or no list for undefined.
toolsOption ==
    IF functionDeclarations.defined /\ Len(functionDeclarations.list) > 0
    THEN <<[functionDeclarations |-> functionDeclarations.list]>>
    ELSE <<>>

\* The config of an event that is no Model Client call.
NoOptions == [systemInstruction |-> "", tools |-> <<>>]

\* One entry of the run's history: what happened (ev), in which round (it)
\* and for which functionCall of that round's response (idx, 0 outside the
\* loop), to which tool name, whether it ended normally, for a Model
\* Client call the contents and config it was given, and for an executable
\* that threw the message of its Error (raw).
Event(ev, name, ok) ==
    [ev |-> ev, it |-> iteration,
     idx |-> IF pc \in {"loop", "confirm"} THEN idx ELSE 0,
     name |-> name, ok |-> ok, sent |-> <<>>, config |-> NoOptions,
     raw |-> <<>>]

\* agent.ts 84-93: the request of a Model Client call, its contents and its
\* config.
GenerateEvent(sent) ==
    [ev |-> "generate", it |-> iteration, idx |-> 0, name |-> "",
     ok |-> TRUE, sent |-> sent,
     config |-> [systemInstruction |-> systemInstruction,
                 tools |-> toolsOption],
     raw |-> <<>>]

\* The part of its budget the environment has used.
Work == started + requested

\* The caller holds no array.
NoHistory == [held |-> FALSE, alias |-> FALSE, mutated |-> FALSE,
              turns |-> <<>>]

\* [...this.contents]: a new array with the same Turns, in order.
Spread(array) == [i \in 1..Len(array) |-> array[i]]

\* A Turn the caller puts into an array it got from getHistory().
CallerTurn == [role |-> "user", parts |-> <<[text |-> "added by caller"]>>]

\* -------------------------------------------------------------- file system
\* Entries of a directory a tool call may name, as the characters of the name.
Names == {<<"a">>, <<"A", "b">>, <<"b">>}
\* Deepest path of the tree, in names below the root.
MaxDepth == 3
\* Tool calls made in one behaviour.
MaxOps == 2

\* Absolute normalised paths: the names from the root down.
Root == <<>>
Paths == UNION {[1..d -> Names] : d \in 0..MaxDepth}
\* path.dirname, path.basename, path.join(dir, name)
dirname(p) == IF p = Root THEN Root ELSE SubSeq(p, 1, Len(p) - 1)
basename(p) == IF p = Root THEN <<>> ELSE p[Len(p)]
join(dir, name) == Append(dir, name)
\* os.homedir() and process.cwd()
HomeDir == <<<<"a">>>>
Cwd == <<<<"b">>>>

\* String.prototype.toLowerCase, character by character.
LowerChar(ch) == IF ch = "A" THEN "a" ELSE IF ch = "B" THEN "b" ELSE ch
toLowerCaseExact(s) == s
toLowerCase(s) == [i \in 1..Len(s) |-> LowerChar(s[i])]
\* s.includes(t): t is a run of consecutive characters of s.
includes(s, t) ==
    \E i \in 0..(Len(s) - Len(t)) : SubSeq(s, i + 1, i + Len(t)) = t

\* A path string as a tool is given it: surrounding whitespace or none, what
\* it starts with ("/" absolute, "~" home, "" relative) and its segments.
DotDot == <<".", ".">>
PathString(pad, from, segs) == [pad |-> pad, from |-> from, segs |-> segs]
NoPath == PathString(FALSE, "", <<>>)
\* inputPath.trim()
trimNothing(s) == s
trim(s) == [s EXCEPT !.pad = FALSE]
\* path.resolve's normalisation: ".." leaves the directory reached so far.
RECURSIVE Normalize(_, _)
Normalize(base, segs) ==
    IF segs = <<>> THEN base
    ELSE IF Head(segs) = DotDot THEN Normalize(dirname(base), Tail(segs))
    ELSE Normalize(Append(base, Head(segs)), Tail(segs))
\* path.resolve(s): a string is absolute when its first character is "/",
\* so one with leading whitespace is taken from the working directory.
pathResolve(s) ==
    Normalize(IF s.from = "/" /\ ~s.pad THEN Root ELSE Cwd, s.segs)
\* resolvePath (tools.ts 92-102)
resolvePath(inputPath) ==
    LET resolved == trim(inputPath)
    IN  IF resolved.from = "~" /\ ~resolved.pad
        THEN pathResolve(PathString(FALSE, "/", HomeDir \o resolved.segs))
        ELSE pathResolve(resolved)

\* A JavaScript string of file contents: its first UTF-16 code units, named
\* by their hexadecimal value, followed by "x".repeat(fill).
Str(units, fill) == [units |-> units, fill |-> fill]
\* contents.length
Length(s) == Len(s.units) + s.fill
Surrogates == {"D83D", "DE00"}
\* The UTF-8 encoding of a string: the code points written, a surrogate pair
\* as one code point and a surrogate without its partner as U+FFFD.
Point(unit) ==
    CASE unit = "00E9" -> "U+00E9"
      [] unit = "FFFD" -> "U+FFFD"
      [] OTHER -> "U+0068"
RECURSIVE EncodeUnits(_)
EncodeUnits(u) ==
    IF u = <<>> THEN <<>>
    ELSE IF Len(u) > 1 /\ u[1] = "D83D" /\ u[2] = "DE00"
    THEN <<"U+1F600">> \o EncodeUnits(SubSeq(u, 3, Len(u)))
    ELSE IF u[1] \in Surrogates THEN <<"U+FFFD">> \o EncodeUnits(Tail(u))
    ELSE <<Point(u[1])>> \o EncodeUnits(Tail(u))
Encode(s) == [points |-> EncodeUnits(s.units), fill |-> s.fill]
\* The string a UTF-8 decoder makes of the bytes of a file.
RECURSIVE DecodePoints(_)
DecodePoints(p) ==
    IF p = <<>> THEN <<>>
    ELSE (CASE p[1] = "U+1F600" -> <<"D83D", "DE00">>
            [] p[1] = "U+FFFD" -> <<"FFFD">>
            [] p[1] = "U+00E9" -> <<"00E9">>
            [] OTHER -> <<"0068">>) \o DecodePoints(Tail(p))
\* Faulty variant: the bytes read as latin1, one code unit for each byte.
RECURSIVE Latin1Units(_)
Latin1Units(p) ==
    IF p = <<>> THEN <<>>
    ELSE (CASE p[1] = "U+1F600" -> <<"00F0", "009F", "0098", "0080">>
            [] p[1] = "U+FFFD" -> <<"00EF", "00BF", "00BD">>
            [] p[1] = "U+00E9" -> <<"00C3", "00A9">>
            [] OTHER -> <<"0068">>) \o Latin1Units(Tail(p))
DecodeLatin1(d) == Str(Latin1Units(d.points), d.fill)
Decode(d) == Str(DecodePoints(d.points), d.fill)
\* Bytes of one encoded code point, and stats.size of a file.
Bytes(point) ==
    CASE point = "U+1F600" -> 4
      [] point = "U+FFFD" -> 3
      [] point = "U+00E9" -> 2
      [] OTHER -> 1
RECURSIVE SumBytes(_)
SumBytes(p) == IF p = <<>> THEN 0 ELSE Bytes(Head(p)) + SumBytes(Tail(p))
Size(d) == SumBytes(d.points) + d.fill

\* const MAX_SIZE = 100 * 1024 in readFile
MAX_SIZE == 100 * 1024

\* What is at a path: nothing, a directory, or a file with its bytes.
NoData == [points |-> <<>>, fill |-> 0]
Absent == [kind |-> "none", data |-> NoData]
Dir == [kind |-> "dir", data |-> NoData]
File(data) == [kind |-> "file", data |-> data]

\* A file system f holds what is at each path that exists, the root among
\* them. fs.existsSync(p), fs.statSync(p) and stats.isDirectory():
existsSync(f, p) == p \in DOMAIN f
statSync(f, p) == IF p \in DOMAIN f THEN f[p] ELSE Absent
isDirectory(f, p) == statSync(f, p).kind = "dir"
\* f with node at path p, and f without the paths of gone
Put(f, p, node) ==
    [q \in DOMAIN f \cup {p} |-> IF q = p THEN node ELSE f[q]]
Remove(f, gone) == [q \in DOMAIN f \ gone |-> f[q]]
\* The orders in which the operating system enumerates a directory.
ReaddirOrders ==
    {<<<<"a">>, <<"A", "b">>, <<"b">>>>, <<<<"b">>, <<"A", "b">>, <<"a">>>>}
\* fs.readdirSync(dir): the names of the entries of dir
readdirSync(f, dir, order) ==
    SelectSeq(order, LAMBDA n : existsSync(f, join(dir, n)))
\* p is dir or below it
Within(p, dir) == Len(p) >= Len(dir) /\ SubSeq(p, 1, Len(dir)) = dir

\* What a tool call comes back with: the value returned (ok) or the Error
\* thrown, as the text that names it and the values put into the message.
NoResult ==
    [ok |-> FALSE, kind |-> "", echo |-> NoPath, value |-> Str(<<>>, 0),
     entries |-> <<>>, count |-> 0, suggestion |-> <<>>]
Done(f, out) == [fs |-> f, out |-> out]
Returns(f, kind, echo) ==
    Done(f, [NoResult EXCEPT !.ok = TRUE, !.kind = kind, !.echo = echo])
Throws(f, kind, echo) ==
    Done(f, [NoResult EXCEPT !.kind = kind, !.echo = echo])
With(done, field, v) == [done EXCEPT !.out[field] = v]

\* validatePath (tools.ts 107-124); threw: readdirSync of a file
validatePath(f, inputPath, order) ==
    LET resolved == resolvePath(inputPath)
        dir == dirname(resolved)
        base == toLowerCase(basename(resolved))
        files == readdirSync(f, dir, order)
        \* files.find(...): the first match, if any
        hits == SelectSeq(files, LAMBDA n :
                    \/ includes(toLowerCase(n), base)
                    \/ includes(base, toLowerCase(n)))
        similar == IF hits = <<>> THEN <<>> ELSE <<Head(hits)>>
        none == [valid |-> FALSE, resolved |-> resolved, suggestion |-> <<>>,
                 threw |-> FALSE]
    IN  IF existsSync(f, resolved) THEN [none EXCEPT !.valid = TRUE]
        ELSE IF ~existsSync(f, dir) THEN none
        ELSE IF ~isDirectory(f, dir) THEN [none EXCEPT !.threw = TRUE]
        ELSE IF similar = <<>> THEN none
        ELSE [none EXCEPT !.suggestion = <<join(dir, similar[1])>>]

\* What the four tools that take an existing path throw for a missing one.
NotFound(f, v, what, echo) ==
    IF v.threw THEN Throws(f, "ENOTDIR: not a directory, scandir", NoPath)
    ELSE With(Throws(f, what, echo), "suggestion", v.suggestion)

\* (stats.size / 1024).toFixed(1), in tenths of a KB
TenthsOfKB(size) == (size * 10 + 512) \div 1024

\* readFile (tools.ts 219-242)
readFile(f, filePath, order) ==
    LET v == validatePath(f, filePath, order)
    IN  IF ~v.valid THEN NotFound(f, v, "File not found", filePath)
        ELSE IF isDirectory(f, v.resolved)
        THEN Throws(f, "is a directory, not a file. Use list_directory",
                    filePath)
        ELSE IF Size(f[v.resolved].data) > MAX_SIZE
        THEN With(Throws(f, "File is too large", NoPath), "count",
                  TenthsOfKB(Size(f[v.resolved].data)))
        ELSE With(Returns(f, "contents", NoPath), "value",
                  Decode(f[v.resolved].data))

\* fs.mkdirSync(dir, {recursive: true}): dir and its missing ancestors
\* become directories; a file on the way is an ENOTDIR and nothing is made.
FileOnTheWay(f, dir) ==
    \E k \in 1..Len(dir) : statSync(f, SubSeq(dir, 1, k)).kind = "file"
mkdirSync(f, dir) ==
    [p \in DOMAIN f \cup {SubSeq(dir, 1, k) : k \in 0..Len(dir)} |->
        IF p \in DOMAIN f THEN f[p] ELSE Dir]

\* writeFile (tools.ts 244-255)
\* Faulty variant: no mkdirSync, a missing parent directory is an ENOENT.
writeFileNoMkdir(f, filePath, text) ==
    LET resolved == resolvePath(filePath)
    IN  IF ~isDirectory(f, dirname(resolved)) \/ isDirectory(f, resolved)
        THEN Throws(f, "ENOENT: no such file or directory", NoPath)
        ELSE With(Returns(Put(f, resolved, File(Encode(text))),
                          "Successfully wrote", filePath),
                  "count", Length(text))
writeFile(f, filePath, text) ==
    LET resolved == resolvePath(filePath)
        dir == dirname(resolved)
        made == IF existsSync(f, dir) THEN f ELSE mkdirSync(f, dir)
    IN  IF FileOnTheWay(f, dir)
        THEN Throws(f, "ENOTDIR: not a directory", NoPath)
        ELSE IF isDirectory(made, resolved)
        THEN Throws(made, "EISDIR: illegal operation on a directory", NoPath)
        ELSE With(Returns(Put(made, resolved, File(Encode(text))),
                          "Successfully wrote", filePath),
                  "count", Length(text))

\* listDirectory (tools.ts 257-274)
listDirectory(f, directoryPath, order) ==
    LET v == validatePath(f, directoryPath, order)
    IN  IF ~v.valid THEN NotFound(f, v, "Directory not found", directoryPath)
        ELSE IF ~isDirectory(f, v.resolved)
        THEN Throws(f, "is a file, not a directory. Use read_file",
                    directoryPath)
        ELSE With(Returns(f, "entries", NoPath), "entries",
                  readdirSync(f, v.resolved, order))

\* deleteFile (tools.ts 276-294)
deleteFile(f, filePath, order) ==
    LET v == validatePath(f, filePath, order)
    IN  IF ~v.valid THEN NotFound(f, v, "File not found", filePath)
        ELSE IF isDirectory(f, v.resolved)
        THEN Throws(f, "is a directory, not a file. Use delete_directory",
                    filePath)
        ELSE Returns(Remove(f, {v.resolved}),
                     "Successfully deleted file", filePath)

\* fs.rmSync(dir, {recursive: true, force: true})
\* Faulty variant: only the directory and its immediate entries go.
rmSyncOneLevel(f, dir) ==
    Remove(f, {p \in DOMAIN f : Within(p, dir) /\ Len(p) <= Len(dir) + 1})
rmSync(f, dir) == Remove(f, {p \in DOMAIN f : Within(p, dir)})

\* deleteDirectory (tools.ts 296-328)
\* Faulty variant: the count is of everything below the directory.
deleteDirectoryCountsAll(f, directoryPath, recursive, order) ==
    LET v == validatePath(f, directoryPath, order)
        below == {p \in Paths : /\ Within(p, v.resolved)
                                /\ p # v.resolved
                                /\ existsSync(f, p)}
    IN  IF ~v.valid THEN NotFound(f, v, "Directory not found", directoryPath)
        ELSE IF ~isDirectory(f, v.resolved)
        THEN Throws(f, "is a file, not a directory. Use delete_file",
                    directoryPath)
        ELSE IF ~recursive
        THEN IF below # {}
             THEN With(Throws(f, "is not empty", directoryPath), "count",
                       Cardinality(below))
             ELSE Returns(Remove(f, {v.resolved}),
                          "Successfully deleted empty directory",
                          directoryPath)
        ELSE Returns(rmSync(f, v.resolved),
                     "Successfully deleted directory and all contents",
                     directoryPath)
deleteDirectory(f, directoryPath, recursive, order) ==
    LET v == validatePath(f, directoryPath, order)
        entries == readdirSync(f, v.resolved, order)
    IN  IF ~v.valid THEN NotFound(f, v, "Directory not found", directoryPath)
        ELSE IF ~isDirectory(f, v.resolved)
        THEN Throws(f, "is a file, not a directory. Use delete_file",
                    directoryPath)
        ELSE IF ~recursive
        THEN IF Len(entries) > 0
             THEN With(Throws(f, "is not empty", directoryPath), "count",
                       Len(entries))
             ELSE Returns(Remove(f, {v.resolved}),
                          "Successfully deleted empty directory",
                          directoryPath)
        ELSE Returns(rmSync(f, v.resolved),
                     "Successfully deleted directory and all contents",
                     directoryPath)

\* JavaScript values of a functionCall's args: a path string, a string of
\* file contents, a boolean, or undefined for a parameter not passed.
PathValue(s) ==
    [type |-> "string", path |-> s, text |-> Str(<<>>, 0), bool |-> FALSE]
TextValue(s) ==
    [type |-> "string", path |-> NoPath, text |-> s, bool |-> FALSE]
BoolValue(b) ==
    [type |-> "boolean", path |-> NoPath, text |-> Str(<<>>, 0), bool |-> b]
Undefined ==
    [type |-> "undefined", path |-> NoPath, text |-> Str(<<>>, 0),
     bool |-> FALSE]
\* An args object: its keys in insertion order, each with its value.
Entry(key, value) == [key |-> key, value |-> value]
\* Object.values(toolArgs)
ObjectValues(toolArgs) == [i \in 1..Len(toolArgs) |-> toolArgs[i].value]
\* The k-th parameter of a function called with ...args
Param(args, k) == IF k <= Len(args) THEN args[k] ELSE Undefined
\* if (!recursive), with recursive: boolean = false
Truthy(v) == (v.type = "boolean" /\ v.bool) \/ v.type = "string"

\* tool.function(...args) of the registry (tools.ts 330-356): every tool
\* begins with inputPath.trim() on its first parameter.
Apply(f, name, args, order) ==
    LET first == Param(args, 1)
        second == Param(args, 2)
    IN  IF first.type # "string"
        THEN Throws(f, "TypeError: inputPath.trim is not a function", NoPath)
        ELSE CASE name = "read_file" -> readFile(f, first.path, order)
               [] name = "write_file" ->
                      writeFile(f, first.path, second.text)
               [] name = "list_directory" ->
                      listDirectory(f, first.path, order)
               [] name = "delete_file" -> deleteFile(f, first.path, order)
               [] name = "delete_directory" ->
                      deleteDirectory(f, first.path, Truthy(second), order)

\* The file systems a behaviour starts from: an empty one, the tests'
\* fixture (a directory with a file and a subdirectory with a file), and one
\* with a file at the top and a directory of three entries.
EmptyFs == [p \in {Root} |-> Dir]
Tree(dirs, files) ==
    [p \in {Root} \cup dirs \cup {e[1] : e \in files} |->
        IF p = Root \/ p \in dirs THEN Dir
        ELSE File(Encode((CHOOSE e \in files : e[1] = p)[2]))]
Hello == Str(<<"0068">>, 0)
TestFixture ==
    Tree({<<<<"a">>>>, <<<<"a">>, <<"b">>>>},
         {<<<<<<"a">>, <<"A", "b">>>>, Hello>>,
          <<<<<<"a">>, <<"b">>, <<"a">>>>, Str(<<>>, 0)>>})
WideFixture ==
    Tree({<<<<"b">>>>, <<<<"b">>, <<"b">>>>},
         {<<<<<<"a">>>>, Hello>>,
          <<<<<<"b">>, <<"a">>>>, Str(<<>>, MAX_SIZE + 1)>>,
          <<<<<<"b">>, <<"A", "b">>>>, Str(<<>>, MAX_SIZE)>>})
Fixtures == {EmptyFs, TestFixture, WideFixture}

\* The paths the Model Client asks for: the top two levels and what is in
\* the subdirectories of the fixtures.
Subdirs == {<<<<"a">>, <<"b">>>>, <<<<"b">>, <<"b">>>>}
TargetPaths ==
    {p \in Paths : Len(p) \in {1, 2}}
    \cup {join(d, n) : d \in Subdirs, n \in Names}
\* The path strings and file contents the Model Client asks for.
PathStrings ==
    {PathString(pad, "/", p) : pad \in BOOLEAN, p \in TargetPaths}
    \cup {PathString(pad, "~", <<<<"b">>>>) : pad \in BOOLEAN}
    \cup {PathString(FALSE, "", <<<<"A", "b">>>>),
          PathString(FALSE, "", <<DotDot, <<"a">>>>)}
Texts ==
    {Str(<<>>, 0), Str(<<"D83D", "DE00">>, 0), Str(<<"D83D">>, 0),
     Str(<<>>, MAX_SIZE), Str(<<"00E9">>, MAX_SIZE - 1)}
\* The args objects of the functionCalls for a tool.
ArgsOf(name) ==
    CASE name = "write_file" ->
             {<<Entry("file_path", PathValue(s)),
                Entry("contents", TextValue(t))>> :
                  s \in PathStrings, t \in Texts}
      [] name = "delete_directory" ->
             {<<Entry("directory_path", PathValue(s))>> : s \in PathStrings}
             \cup {<<Entry("directory_path", PathValue(s)),
                     Entry("recursive", BoolValue(b))>> :
                       s \in PathStrings, b \in BOOLEAN}
             \cup {<<Entry("recursive", BoolValue(b)),
                     Entry("directory_path", PathValue(s))>> :
                       s \in PathStrings, b \in BOOLEAN}
      [] name = "list_directory" ->
             {<<Entry("directory_path", PathValue(s))>> : s \in PathStrings}
      [] OTHER -> {<<Entry("file_path", PathValue(s))>> : s \in PathStrings}
\* The path string among the values of an args object.
PathArg(toolArgs) ==
    (CHOOSE e \in {toolArgs[i] : i \in 1..Len(toolArgs)} :
        e.key \in {"file_path", "directory_path"}).value.path
\* No tool call made yet; listing is what readdirSync gives for the parent
\* of the path at the call.
NoCall == [name |-> "", args |-> <<>>, out |-> NoResult, listing |-> <<>>]

\* The run calls that can be in flight at once.
Runs == {"first", "second"}
\* The frame of a run call: where it is suspended (generate: at the Model
\* Client call; confirm: at the confirmation hook; idle: not in flight), its
\* iteration parameter, its locals, the contents its Model Client call was
\* given, and how it ended.
IdleFrame ==
    [pc |-> "idle", iteration |-> 0, response |-> EmptyResponse, idx |-> 0,
     parts |-> <<>>, sent |-> <<>>, ended |-> "none"]
Ended(how) == [IdleFrame EXCEPT !.ended = how]
NoFrames == [r \in Runs |-> IdleFrame]

\* -------------------------------------------------------------------- Init
\* The AgentConfig objects an Agent is constructed with: every choice of
\* registry, budget and hooks without onMaxIterationsReached, and the CLI's
\* configuration (registry and both hooks) with an onMaxIterationsReached
\* that answers stop or continue.
Configs ==
    [tools : {tools, NoTools}, maxIterations : 0..MaxIter,
     onToolCall : BOOLEAN, confirmAction : BOOLEAN,
     onMaxIterationsReached : {"undefined"}]
    \cup
    [tools : {tools}, maxIterations : 0..MaxIter,
     onToolCall : {TRUE}, confirmAction : {TRUE},
     onMaxIterationsReached : {"stop", "continue"}]

\* new Agent(config): contents empty, no run in flight.
Init ==
    /\ \E c \in Configs :
        /\ this_tools = c.tools
        /\ maxIterations = c.maxIterations
        /\ onToolCall = c.onToolCall
        /\ confirmAction = c.confirmAction
        /\ onMaxIterationsReached = c.onMaxIterationsReached
        /\ toolsDefined = (c.tools # NoTools)
    /\ systemInstruction = DefaultInstruction
    /\ contents = <<>>
    /\ pc = "idle"
    /\ input = TextInput("")
    /\ iteration = 0
    /\ response = EmptyResponse
    /\ idx = 0
    /\ functionResponseParts = <<>>
    /\ outcome = NoOutcome
    /\ events = <<>>
    /\ started = 0
    /\ requested = 0
    /\ history = NoHistory
    /\ fs = EmptyFs
    /\ last = NoCall
    /\ ops = 0
    /\ frames = NoFrames
    /\ owners = <<>>

\* ----------------------------------------------------------------- actions
\* run returns or throws: its frame (parameters and locals) is gone.
EndRun(out) ==
    /\ pc' = "idle"
    /\ outcome' = out
    /\ input' = TextInput("")
    /\ iteration' = 0
    /\ response' = EmptyResponse
    /\ idx' = 0
    /\ functionResponseParts' = <<>>

\* Faulty variant: the counter lives in the Agent and a run that ended at the
\* limit leaves it where it stood.
CallCarriesOver(text) ==
    /\ pc = "idle"
    /\ Work < MaxWork
    /\ pc' = "entry"
    /\ input' = TextInput(text)
    /\ iteration' = IF outcome.kind = "thrown" THEN outcome.n ELSE 0
    /\ outcome' = NoOutcome
    /\ events' = <<>>
    /\ started' = started + 1
    /\ history' = NoHistory
    /\ UNCHANGED <<config, fsvars, concvars, contents, response, idx, functionResponseParts,
                   requested>>

\* The CLI calls agent.run(userInput) (iteration defaults to 0). The caller
\* keeps no array of an earlier getHistory() across the call.
Call(text) ==
    /\ pc = "idle"
    /\ Work < MaxWork
    /\ pc' = "entry"
    /\ input' = TextInput(text)
    /\ iteration' = 0
    /\ outcome' = NoOutcome
    /\ events' = <<>>
    /\ started' = started + 1
    /\ history' = NoHistory
    /\ UNCHANGED <<config, fsvars, concvars, contents, response, idx, functionResponseParts,
                   requested>>

\* agent.ts 66-70: the escape hatch rejects before any work.
\* Faulty variant: the limit is looked at after the input is appended.
EntryThrowsAfterPush ==
    /\ pc = "entry"
    /\ LimitReached(iteration)
    /\ contents' = Append(contents,
            [role |-> "user",
             parts |-> IF input.isText THEN <<[text |-> input.text]>>
                       ELSE input.parts])
    /\ events' = Append(events, Event("throw", "", FALSE))
    /\ EndRun(Thrown(ExceededMsg, maxIterations))
    /\ UNCHANGED <<config, fsvars, concvars, history, started, requested>>
EntryThrows ==
    /\ pc = "entry"
    /\ LimitReached(iteration)
    /\ events' = Append(events, Event("throw", "", FALSE))
    /\ EndRun(Thrown(ExceededMsg, maxIterations))
    /\ UNCHANGED <<config, fsvars, concvars, history, contents, started, requested>>

\* Faulty variant: the input replaces Conversation State instead of being
\* appended to it.
EntrySendsFresh ==
    /\ pc = "entry"
    /\ ~LimitReached(iteration)
    /\ contents' = <<[role |-> "user",
                      parts |-> IF input.isText THEN <<[text |-> input.text]>>
                                ELSE input.parts]>>
    /\ events' = Append(events, GenerateEvent(contents'))
    /\ pc' = "generate"
    /\ UNCHANGED <<config, fsvars, concvars, history, input, iteration, response, idx,
                   functionResponseParts, outcome, started, requested>>

\* agent.ts 72-93: append the input as a user Turn, call the Model Client.
EntrySends ==
    /\ pc = "entry"
    /\ ~LimitReached(iteration)
    /\ contents' = Append(contents,
            [role |-> "user",
             parts |-> IF input.isText THEN <<[text |-> input.text]>>
                       ELSE input.parts])
    /\ events' = Append(events, GenerateEvent(contents'))
    /\ pc' = "generate"
    /\ UNCHANGED <<config, fsvars, concvars, history, input, iteration, response, idx,
                   functionResponseParts, outcome, started, requested>>

\* Faulty variant: run is called again with the same iteration count.
AdvanceSameIteration(parts) ==
    /\ functionResponseParts' = parts
    /\ IF idx >= Len(response.functionCalls)
       THEN /\ pc' = "entry"
            /\ input' = PartsInput(parts)
            /\ iteration' = iteration
            /\ idx' = idx
       ELSE /\ pc' = "loop"
            /\ idx' = idx + 1
            /\ UNCHANGED <<input, iteration>>

\* Faulty variant: the loop is left after the first functionCall.
AdvanceLeavesLoop(parts) ==
    /\ functionResponseParts' = parts
    /\ pc' = "entry"
    /\ input' = PartsInput(parts)
    /\ iteration' = iteration + 1
    /\ idx' = idx

\* After the for loop: return this.run(functionResponseParts, iteration + 1).
\* Otherwise the loop goes on with the next functionCall.
Advance(parts) ==
    /\ functionResponseParts' = parts
    /\ IF idx >= Len(response.functionCalls)
       THEN /\ pc' = "entry"
            /\ input' = PartsInput(parts)
            /\ iteration' = iteration + 1
            /\ idx' = idx
       ELSE /\ pc' = "loop"
            /\ idx' = idx + 1
            /\ UNCHANGED <<input, iteration>>

\* Faulty variant: the Content of the response is appended twice.
GenerateResolvesPushesTwice(resp) ==
    /\ pc = "generate"
    /\ requested' = requested + Len(resp.functionCalls)
    /\ contents' = IF resp.hasContent
                   THEN contents \o <<ContentOf(resp), ContentOf(resp)>>
                   ELSE contents
    /\ IF Len(resp.functionCalls) > 0
       THEN /\ pc' = "loop"
            /\ response' = resp
            /\ idx' = 1
            /\ functionResponseParts' = <<>>
            /\ UNCHANGED <<input, iteration, outcome>>
       ELSE EndRun(Returned(resp))
    /\ UNCHANGED <<config, fsvars, concvars, history, events, started>>

\* agent.ts 84-101, 154: the Model Client resolves.
GenerateResolves(resp) ==
    /\ pc = "generate"
    /\ requested' = requested + Len(resp.functionCalls)
    /\ contents' = IF resp.hasContent THEN Append(contents, ContentOf(resp))
                   ELSE contents
    /\ IF Len(resp.functionCalls) > 0
       THEN /\ pc' = "loop"
            /\ response' = resp
            /\ idx' = 1
            /\ functionResponseParts' = <<>>
            /\ UNCHANGED <<input, iteration, outcome>>
       ELSE EndRun(Returned(resp))
    /\ UNCHANGED <<config, fsvars, concvars, history, events, started>>

\* Faulty variant: a rejected Model Client call is made again.
GenerateRejectsRetries ==
    /\ pc = "generate"
    /\ events' = events \o <<Event("generateFailed", "", FALSE),
                             GenerateEvent(contents)>>
    /\ UNCHANGED <<config, fsvars, concvars, history, contents, pc, input, iteration, response, idx,
                   functionResponseParts, outcome, started, requested>>

\* agent.ts 84: the awaited call rejects; nothing in run catches it.
GenerateRejects ==
    /\ pc = "generate"
    /\ events' = Append(events, Event("generateFailed", "", FALSE))
    /\ EndRun(Thrown("Model Client failure", 0))
    /\ UNCHANGED <<config, fsvars, concvars, history, contents, started, requested>>

\* agent.ts 125-136: fire the logging hook, then run the executable inside
\* the try; the events this adds and the Part it records.
Logged == IF onToolCall
          THEN Append(events, Event("onToolCall", toolName, TRUE))
          ELSE events

Executed(ev, out) ==
    /\ events' = Append(ev, [Event("execute", toolName, ~out.threw)
                               EXCEPT !.raw = IF out.threw THEN out.value
                                             ELSE <<>>])
    /\ Advance(Push(functionResponseParts,
               ResponsePart(toolName,
                   ExecResult(out, toolName, response.functionCalls[idx].args))))

\* Faulty variant: the call of the executable is not inside a try, so its failure
\* leaves run.
LoopExecuteUncaught(out) ==
    /\ pc = "loop"
    /\ Registered(toolName)
    /\ ~NeedsConfirm(toolName)
    /\ IF out.threw
       THEN /\ events' = Append(Logged, Event("execute", toolName, FALSE))
            /\ EndRun(Thrown("tool failure", 0))
            /\ UNCHANGED <<config, fsvars, concvars, history, contents, started, requested>>
       ELSE /\ Executed(Logged, out)
            /\ UNCHANGED <<config, fsvars, concvars, history, contents, response, outcome, started,
                           requested>>

\* Faulty variant: the logging hook is fired after the executable has run.
LoopExecuteLogsAfter(out) ==
    /\ pc = "loop"
    /\ Registered(toolName)
    /\ ~NeedsConfirm(toolName)
    /\ events' = Append(events, Event("execute", toolName, ~out.threw))
                  \o (IF onToolCall
                      THEN <<Event("onToolCall", toolName, TRUE)>>
                      ELSE <<>>)
    /\ Advance(Push(functionResponseParts,
               ResponsePart(toolName,
                   ExecResult(out, toolName, response.functionCalls[idx].args))))
    /\ UNCHANGED <<config, fsvars, concvars, history, contents, response, outcome, started, requested>>

\* agent.ts 110-114, 125-147: a registered tool that needs no confirmation
\* is logged, executed and its result recorded.
LoopExecute(out) ==
    /\ pc = "loop"
    /\ Registered(toolName)
    /\ ~NeedsConfirm(toolName)
    /\ Executed(Logged, out)
    /\ UNCHANGED <<config, fsvars, concvars, history, contents, response, outcome, started, requested>>

\* agent.ts 126-128: the logging hook throws (it is outside the try).
LoopLogThrows ==
    /\ pc = "loop"
    /\ Registered(toolName)
    /\ ~NeedsConfirm(toolName)
    /\ onToolCall
    /\ events' = Append(events, Event("onToolCall", toolName, FALSE))
    /\ EndRun(Thrown("onToolCall failure", 0))
    /\ UNCHANGED <<config, fsvars, concvars, history, contents, started, requested>>

\* Faulty variant: the logging hook is fired before the confirmation hook is
\* asked.
LoopConfirmLogsFirst ==
    /\ pc = "loop"
    /\ Registered(toolName)
    /\ NeedsConfirm(toolName)
    /\ pc' = "confirm"
    /\ events' = Append(Logged, Event("confirmAction", toolName, TRUE))
    /\ UNCHANGED <<config, fsvars, concvars, history, contents, input, iteration, response, idx,
                   functionResponseParts, outcome, started, requested>>

\* agent.ts 110-115: a registered tool that requires confirmation, with a
\* confirmation hook: the hook is called and run suspends.
LoopConfirm ==
    /\ pc = "loop"
    /\ Registered(toolName)
    /\ NeedsConfirm(toolName)
    /\ pc' = "confirm"
    /\ events' = Append(events, Event("confirmAction", toolName, TRUE))
    /\ UNCHANGED <<config, fsvars, concvars, history, contents, input, iteration, response, idx,
                   functionResponseParts, outcome, started, requested>>

\* Faulty variant: a name that is not registered makes run throw.
LoopUnknownThrows ==
    /\ pc = "loop"
    /\ ~Registered(toolName)
    /\ events' = Append(Logged, Event("notFound", toolName, TRUE))
    /\ EndRun(Thrown("Tool not found", 0))
    /\ UNCHANGED <<config, fsvars, concvars, history, contents, started, requested>>

\* agent.ts 137-147: a name that is not registered.
LoopUnknown ==
    /\ pc = "loop"
    /\ ~Registered(toolName)
    /\ events' = Append(Logged, Event("notFound", toolName, TRUE))
    /\ Advance(Push(functionResponseParts,
                      ResponsePart(toolName, NotFoundResult(toolName))))
    /\ UNCHANGED <<config, fsvars, concvars, history, contents, response, outcome, started, requested>>

\* agent.ts 139-141: the logging hook throws for an unknown tool.
LoopUnknownLogThrows ==
    /\ pc = "loop"
    /\ ~Registered(toolName)
    /\ onToolCall
    /\ events' = Append(events, Event("onToolCall", toolName, FALSE))
    /\ EndRun(Thrown("onToolCall failure", 0))
    /\ UNCHANGED <<config, fsvars, concvars, history, contents, started, requested>>

\* Faulty variant: the `continue` of agent.ts 121 is missing, so a denied action
\* falls through to the logging hook and the executable.
ConfirmDeniedFallsThrough ==
    /\ pc = "confirm"
    /\ \E out \in ToolOutcomes :
         Executed(Append(events, Event("denied", toolName, TRUE)), out)
    /\ UNCHANGED <<config, fsvars, concvars, history, contents, response, outcome, started, requested>>

\* agent.ts 115-122: the confirmation hook resolves to false.
ConfirmDenied ==
    /\ pc = "confirm"
    /\ events' = Append(events, Event("denied", toolName, TRUE))
    /\ Advance(Push(functionResponseParts,
                      ResponsePart(toolName, CancelledResult)))
    /\ UNCHANGED <<config, fsvars, concvars, history, contents, response, outcome, started, requested>>

\* agent.ts 115-116, 125-147: the confirmation hook resolves to true.
ConfirmApproved(out) ==
    /\ pc = "confirm"
    /\ LET approved == Append(events, Event("approved", toolName, TRUE))
       IN Executed(IF onToolCall
                   THEN Append(approved, Event("onToolCall", toolName, TRUE))
                   ELSE approved, out)
    /\ UNCHANGED <<config, fsvars, concvars, history, contents, response, outcome, started, requested>>

\* agent.ts 115-116, 126-128: approved, and the logging hook throws.
ConfirmApprovedLogThrows ==
    /\ pc = "confirm"
    /\ onToolCall
    /\ events' = events \o <<Event("approved", toolName, TRUE),
                             Event("onToolCall", toolName, FALSE)>>
    /\ EndRun(Thrown("onToolCall failure", 0))
    /\ UNCHANGED <<config, fsvars, concvars, history, contents, started, requested>>

\* agent.ts 115: the confirmation hook rejects.
ConfirmRejects ==
    /\ pc = "confirm"
    /\ events' = Append(events, Event("confirmFailed", toolName, FALSE))
    /\ EndRun(Thrown("confirmAction failure", 0))
    /\ UNCHANGED <<config, fsvars, concvars, history, contents, started, requested>>

\* Faulty variant: the first Turn survives the reset.
clearHistoryKeepsFirst ==
    /\ pc = "idle"
    /\ contents # <<>>
    /\ contents' = <<contents[1]>>
    /\ history' = [history EXCEPT !.alias = FALSE]
    /\ owners' = <<>>
    /\ UNCHANGED <<config, fsvars, frames, pc, input, iteration, response, idx,
                   functionResponseParts, outcome, events, started, requested>>

\* agent.ts 50-52, called by the CLI between runs: this.contents is a new
\* empty array, so an array the caller holds is no longer this.contents.
clearHistory ==
    /\ pc = "idle"
    /\ contents # <<>>
    /\ contents' = <<>>
    /\ history' = [history EXCEPT !.alias = FALSE]
    /\ owners' = <<>>
    /\ UNCHANGED <<config, fsvars, frames, pc, input, iteration, response, idx,
                   functionResponseParts, outcome, events, started, requested>>

\* Faulty variant: getHistory returns this.contents itself.
getHistoryAliased ==
    /\ pc = "idle"
    /\ history' = [held |-> TRUE, alias |-> TRUE, mutated |-> FALSE,
                   turns |-> contents]
    /\ UNCHANGED <<config, fsvars, concvars, contents, pc, input, iteration, response, idx,
                   functionResponseParts, outcome, events, started, requested>>

\* agent.ts 57-59, called between runs: return [...this.contents].
getHistory ==
    /\ pc = "idle"
    /\ history' = [held |-> TRUE, alias |-> FALSE, mutated |-> FALSE,
                   turns |-> Spread(contents)]
    /\ UNCHANGED <<config, fsvars, concvars, contents, pc, input, iteration, response, idx,
                   functionResponseParts, outcome, events, started, requested>>

\* The caller changes the array it holds, once: an array that is
\* this.contents itself changes Conversation State with it.
HistoryChanged(turns) ==
    /\ pc = "idle"
    /\ history.held
    /\ ~history.mutated
    /\ history' = [history EXCEPT !.mutated = TRUE, !.turns = turns]
    /\ contents' = IF history.alias THEN turns ELSE contents
    /\ UNCHANGED <<config, fsvars, concvars, pc, input, iteration, response, idx,
                   functionResponseParts, outcome, events, started, requested>>

\* history.push(turn)
HistoryPush ==
    /\ history.held
    /\ HistoryChanged(Append(history.turns, CallerTurn))

\* history.pop()
HistoryPop ==
    /\ history.turns # <<>>
    /\ HistoryChanged(SubSeq(history.turns, 1, Len(history.turns) - 1))

Next ==
    \/ \E t \in UserTexts : Call(t)
    \/ EntryThrows
    \/ EntrySends
    \/ \E resp \in Responses(MaxWork - Work) : GenerateResolves(resp)
    \/ GenerateRejects
    \/ \E out \in ToolOutcomes : LoopExecute(out)
    \/ LoopLogThrows
    \/ LoopConfirm
    \/ LoopUnknown
    \/ LoopUnknownLogThrows
    \/ ConfirmDenied
    \/ \E out \in ToolOutcomes : ConfirmApproved(out)
    \/ ConfirmApprovedLogThrows
    \/ ConfirmRejects
    \/ clearHistory

Spec == Init /\ [][Next]_vars

\* The Agent with a caller that also reads the history between runs and
\* changes the arrays it is given.
HistoryNext ==
    \/ Next
    \/ getHistory
    \/ HistoryPush
    \/ HistoryPop

HistorySpec == Init /\ [][HistoryNext]_vars

\* The AgentConfig objects that differ in what the Model Client is to be
\* given: the registry (left out, empty, the one of tools.ts, one with a
\* declared name twice) and the system instruction (left out or set), with
\* both hooks and the largest budget.
Instructions == {"undefined", CustomInstruction}
Registries == {"undefined", "empty", "tools", "twice"}
RegistryOf(r) ==
    CASE r = "tools" -> tools
      [] r = "twice" -> TwiceDeclared
      [] OTHER -> NoTools

\* new Agent(config) (agent.ts 35-44) for these.
RequestInit ==
    /\ \E r \in Registries :
        /\ this_tools = RegistryOf(r)
        /\ toolsDefined = (r # "undefined")
    /\ \E i \in Instructions :
        systemInstruction = IF i = "undefined" THEN DefaultInstruction ELSE i
    /\ maxIterations = MaxIter
    /\ onToolCall = TRUE
    /\ confirmAction = TRUE
    /\ onMaxIterationsReached = "undefined"
    /\ contents = <<>>
    /\ pc = "idle"
    /\ input = TextInput("")
    /\ iteration = 0
    /\ response = EmptyResponse
    /\ idx = 0
    /\ functionResponseParts = <<>>
    /\ outcome = NoOutcome
    /\ events = <<>>
    /\ started = 0
    /\ requested = 0
    /\ history = NoHistory
    /\ fs = EmptyFs
    /\ last = NoCall
    /\ ops = 0
    /\ frames = NoFrames
    /\ owners = <<>>

RequestSpec == RequestInit /\ [][Next]_vars

\* The messages of the Errors a tool's executable throws, each the sequence
\* of its fragments: the ones of the tests (part_000 1085, 1103), Node's
\* message for a read of a directory, the ones tools.ts throws for a missing
\* file and for a directory (tools.ts 223, 232), the system's texts without
\* their codes, and one of no known kind.
FailureMessages ==
    {<<"ENOENT", ": ", "no such file", " or directory">>,
     <<"EACCES", ": ", "permission denied">>,
     <<"EISDIR", ": illegal operation on a directory, read">>,
     <<"File ", "not found", ": '/test/file'">>,
     <<"'/test/file' ", "is a directory", ", not a file.">>,
     <<"no such file">>,
     <<"permission denied">>,
     <<"Tool failed">>}
FailureOutcomes == {[threw |-> TRUE, value |-> m] : m \in FailureMessages}

\* The args of the failing calls: with file_path, with directory_path, with
\* both and with neither (part_000 1091, 1108).
FailureArgs ==
    {[file_path |-> "/test/file"],
     [directory_path |-> "/test/dir"],
     [file_path |-> "/test/file", directory_path |-> "/test/dir"],
     [other |-> "x"]}
FailureResponses ==
    {CallResponse(<<[name |-> n, args |-> a]>>) :
        n \in {"read_file", "delete_file"}, a \in FailureArgs}

\* The Agent of the error formatting tests with the hooks of the CLI
\* (part_000 1080, part_001 118-150).
FailureInit ==
    /\ this_tools = tools
    /\ toolsDefined = TRUE
    /\ systemInstruction = DefaultInstruction
    /\ maxIterations = MaxIter
    /\ onToolCall = TRUE
    /\ confirmAction = TRUE
    /\ onMaxIterationsReached = "undefined"
    /\ contents = <<>>
    /\ pc = "idle"
    /\ input = TextInput("")
    /\ iteration = 0
    /\ response = EmptyResponse
    /\ idx = 0
    /\ functionResponseParts = <<>>
    /\ outcome = NoOutcome
    /\ events = <<>>
    /\ started = 0
    /\ requested = 0
    /\ history = NoHistory
    /\ fs = EmptyFs
    /\ last = NoCall
    /\ ops = 0
    /\ frames = NoFrames
    /\ owners = <<>>

\* The Agent's steps with these failures among the outcomes of a tool.
FailureNext ==
    \/ Next
    \/ (Work < MaxWork /\ \E resp \in FailureResponses : GenerateResolves(resp))
    \/ \E out \in FailureOutcomes : LoopExecute(out)
    \/ \E out \in FailureOutcomes : ConfirmApproved(out)

FailureSpec == FailureInit /\ [][FailureNext]_vars

\* ------------------------------------------------- run calls in flight at once
\* run is async: a call runs by itself from one await to the next, and at an
\* await (of the Model Client, agent.ts 84, or of the confirmation hook,
\* agent.ts 115) the caller and the other run calls go on. One action is
\* the whole stretch of one run call between two awaits.

\* Faulty variant: the input is appended only after the Model Client has
\* answered, so the call is given the contents without it.
RecurSendsBeforePush(r, turns, own, parts, it) ==
    IF LimitReached(it)
    THEN /\ contents' = turns
         /\ owners' = own
         /\ frames' = [frames EXCEPT ![r] = Ended("thrown")]
    ELSE /\ contents' = Append(turns, [role |-> "user", parts |-> parts])
         /\ owners' = Append(own, r)
         /\ frames' = [frames EXCEPT ![r] =
                [IdleFrame EXCEPT !.pc = "generate", !.iteration = it,
                                  !.sent = turns]]

\* agent.ts 66-93: run(input, it) up to its await of the Model Client, on
\* the Conversation State `turns` the stretch has reached.
Recur(r, turns, own, parts, it) ==
    IF LimitReached(it)
    THEN /\ contents' = turns
         /\ owners' = own
         /\ frames' = [frames EXCEPT ![r] = Ended("thrown")]
    ELSE LET pushed == Append(turns, [role |-> "user", parts |-> parts])
         IN  /\ contents' = pushed
             /\ owners' = Append(own, r)
             /\ frames' = [frames EXCEPT ![r] =
                    [IdleFrame EXCEPT !.pc = "generate", !.iteration = it,
                                      !.sent = pushed]]

\* agent.ts 104-148: the for loop from the functionCall at fr.idx on, up to
\* the first await of the confirmation hook (pc "confirm") or to its end
\* (pc "recur"); outs[i] is what the executable of the i-th call does.
RECURSIVE Loop(_, _)
Loop(fr, outs) ==
    IF fr.idx > Len(fr.response.functionCalls)
    THEN [fr EXCEPT !.pc = "recur"]
    ELSE LET fc == fr.response.functionCalls[fr.idx]
             name == ToolNameOf(fc)
         IN  IF Registered(name) /\ NeedsConfirm(name)
             THEN [fr EXCEPT !.pc = "confirm"]
             ELSE Loop([fr EXCEPT
                         !.parts = Push(@, ResponsePart(name,
                             IF Registered(name)
                             THEN ExecResult(outs[fr.idx], name, fc.args)
                             ELSE NotFoundResult(name))),
                         !.idx = @ + 1], outs)

\* agent.ts 115, 151: the stretch ends at the await of the confirmation
\* hook, or goes on into this.run(functionResponseParts, iteration + 1).
AfterLoop(r, turns, own, fr) ==
    IF fr.pc = "confirm"
    THEN /\ contents' = turns
         /\ owners' = own
         /\ frames' = [frames EXCEPT ![r] = fr]
    ELSE Recur(r, turns, own, fr.parts, fr.iteration + 1)

\* Faulty variant: run refuses to start while another run call is in
\* flight.
RunStartsAlone(r, text) ==
    /\ \A q \in Runs : frames[q].pc = "idle"
    /\ Work < MaxWork
    /\ started' = started + 1
    /\ Recur(r, contents, owners, <<[text |-> text]>>, 0)
    /\ UNCHANGED <<config, fsvars, agentframe, requested>>

\* agent.run(text) is called while other calls may be in flight.
RunStarts(r, text) ==
    /\ frames[r].pc = "idle"
    /\ Work < MaxWork
    /\ started' = started + 1
    /\ Recur(r, contents, owners, <<[text |-> text]>>, 0)
    /\ UNCHANGED <<config, fsvars, agentframe, requested>>

\* agent.ts 84-101, 154: the Model Client call of r resolves.
RunResolves(r, resp, outs) ==
    /\ frames[r].pc = "generate"
    /\ requested' = requested + Len(resp.functionCalls)
    /\ LET turns == IF resp.hasContent
                    THEN Append(contents, ContentOf(resp)) ELSE contents
           own == IF resp.hasContent THEN Append(owners, r) ELSE owners
       IN  IF Len(resp.functionCalls) = 0
           THEN /\ contents' = turns
                /\ owners' = own
                /\ frames' = [frames EXCEPT ![r] = Ended("returned")]
           ELSE AfterLoop(r, turns, own,
                    Loop([frames[r] EXCEPT !.response = resp, !.idx = 1,
                                           !.parts = <<>>], outs))
    /\ UNCHANGED <<config, fsvars, agentframe, started>>

\* agent.ts 84: the Model Client call of r rejects.
RunGenerateRejects(r) ==
    /\ frames[r].pc = "generate"
    /\ frames' = [frames EXCEPT ![r] = Ended("thrown")]
    /\ UNCHANGED <<config, fsvars, agentframe, contents, owners, started,
                   requested>>

\* agent.ts 115-148: the confirmation hook answers r, and the loop goes on.
RunConfirmResolves(r, confirmed, outs) ==
    /\ frames[r].pc = "confirm"
    /\ LET fr == frames[r]
           fc == fr.response.functionCalls[fr.idx]
           name == ToolNameOf(fc)
           result == IF confirmed THEN ExecResult(outs[fr.idx], name, fc.args)
                     ELSE CancelledResult
       IN  AfterLoop(r, contents, owners,
               Loop([fr EXCEPT !.parts = Push(@, ResponsePart(name, result)),
                               !.idx = @ + 1], outs))
    /\ UNCHANGED <<config, fsvars, agentframe, started, requested>>

\* agent.ts 115: the confirmation hook rejects.
RunConfirmRejects(r) ==
    /\ frames[r].pc = "confirm"
    /\ frames' = [frames EXCEPT ![r] = Ended("thrown")]
    /\ UNCHANGED <<config, fsvars, agentframe, contents, owners, started,
                   requested>>

\* An Agent with the registry, a confirmation hook and the largest budget.
ConcurrentInit ==
    /\ this_tools = tools
    /\ toolsDefined = TRUE
    /\ systemInstruction = DefaultInstruction
    /\ maxIterations = MaxIter
    /\ onToolCall = FALSE
    /\ confirmAction = TRUE
    /\ onMaxIterationsReached = "undefined"
    /\ contents = <<>>
    /\ pc = "idle"
    /\ input = TextInput("")
    /\ iteration = 0
    /\ response = EmptyResponse
    /\ idx = 0
    /\ functionResponseParts = <<>>
    /\ outcome = NoOutcome
    /\ events = <<>>
    /\ started = 0
    /\ requested = 0
    /\ history = NoHistory
    /\ fs = EmptyFs
    /\ last = NoCall
    /\ ops = 0
    /\ frames = NoFrames
    /\ owners = <<>>

\* What the executables of the calls of one response do.
OutcomeSeqs == [1..MaxWork -> ToolOutcomes]

\* The run calls take their stretches in any order, and clearHistory
\* (agent.ts 50-52) is called at any await.
ConcurrentNext ==
    \/ \E r \in Runs : \E t \in UserTexts : RunStarts(r, t)
    \/ \E r \in Runs : \E resp \in Responses(MaxWork - Work) :
          \E outs \in OutcomeSeqs : RunResolves(r, resp, outs)
    \/ \E r \in Runs : RunGenerateRejects(r)
    \/ \E r \in Runs : \E confirmed \in BOOLEAN :
          \E outs \in OutcomeSeqs : RunConfirmResolves(r, confirmed, outs)
    \/ \E r \in Runs : RunConfirmRejects(r)
    \/ clearHistory

ConcurrentSpec == ConcurrentInit /\ [][ConcurrentNext]_vars

\* The steps of a run in flight: everything but the CLI's calls.
RunStep ==
    \/ EntryThrows
    \/ EntrySends
    \/ \E resp \in Responses(MaxWork - Work) : GenerateResolves(resp)
    \/ GenerateRejects
    \/ \E out \in ToolOutcomes : LoopExecute(out)
    \/ LoopLogThrows
    \/ LoopConfirm
    \/ LoopUnknown
    \/ LoopUnknownLogThrows
    \/ ConfirmDenied
    \/ \E out \in ToolOutcomes : ConfirmApproved(out)
    \/ ConfirmApprovedLogThrows
    \/ ConfirmRejects

\* Every Model Client call, hook call and tool execution comes back, and the
\* synchronous code in between runs: a run in flight takes its next step.
FairSpec == Spec /\ WF_vars(RunStep)

\* ------------------------------------------------------- tools at work
agentvars == <<this_tools, contents, maxIterations, onToolCall,
               confirmAction, systemInstruction, toolsDefined,
               onMaxIterationsReached, pc, input, iteration,
               response, idx, functionResponseParts, outcome, events,
               started, requested, history, frames, owners>>

\* An Agent with the registry and no hooks, before its first run, over one
\* of the file systems.
FsInit ==
    /\ this_tools = tools
    /\ toolsDefined = TRUE
    /\ systemInstruction = DefaultInstruction
    /\ maxIterations = MaxIter
    /\ onToolCall = FALSE
    /\ confirmAction = FALSE
    /\ onMaxIterationsReached = "undefined"
    /\ contents = <<>>
    /\ pc = "idle"
    /\ input = TextInput("")
    /\ iteration = 0
    /\ response = EmptyResponse
    /\ idx = 0
    /\ functionResponseParts = <<>>
    /\ outcome = NoOutcome
    /\ events = <<>>
    /\ started = 0
    /\ requested = 0
    /\ history = NoHistory
    /\ fs \in Fixtures
    /\ last = NoCall
    /\ ops = 0
    /\ frames = NoFrames
    /\ owners = <<>>

\* tool.function(...Object.values(toolArgs)) (agent.ts 131) for a
\* functionCall of a registered tool, on the file system as it is.
Invoke(name, toolArgs, order) ==
    /\ ops < MaxOps
    /\ resolvePath(PathArg(toolArgs)) \in Paths
    /\ LET done == Apply(fs, name, ObjectValues(toolArgs), order)
       IN  /\ fs' = done.fs
           /\ last' = [name |-> name, args |-> toolArgs, out |-> done.out,
                       listing |-> readdirSync(fs,
                           dirname(resolvePath(PathArg(toolArgs))), order)]
    /\ ops' = ops + 1
    /\ UNCHANGED agentvars

FsNext ==
    \E name \in DOMAIN tools : \E toolArgs \in ArgsOf(name) :
        \E order \in ReaddirOrders : Invoke(name, toolArgs, order)

FsSpec == FsInit /\ [][FsNext]_vars

\* ------------------------------------------------------------------ claims
EvIdx == 1..Len(events)

\* Some event ev of round it for the idx-th functionCall is in the history.
HasEvent(ev, it, i) ==
    \E k \in EvIdx :
        events[k].ev = ev /\ events[k].it = it /\ events[k].idx = i

\* The run that was started last has returned or thrown.
RunEnded == pc = "idle" /\ outcome.kind # "none"

\* The Part recorded so far in this run for the i-th functionCall of round it:
\* in functionResponseParts while that round's loop runs, in input once run
\* is called again with the Parts.
RecordedNow(it, i) ==
    IF pc \in {"loop", "confirm"} /\ iteration = it
       /\ i <= Len(functionResponseParts)
    THEN <<functionResponseParts[i]>>
    ELSE IF pc = "entry" /\ iteration = it + 1 /\ ~input.isText
    THEN <<input.parts[i]>>
    ELSE <<>>

\* The user Turns given to the Model Client by the calls of round it.
SentTurns(it) ==
    {events[k].sent[Len(events[k].sent)] :
        k \in {j \in EvIdx : events[j].ev = "generate" /\ events[j].it = it}}

\* The i-th invocation of round it, where recorded or sent, carries `part`.
Carries(it, i, part) ==
    /\ \A p \in {RecordedNow(it, i)} : p = <<>> \/ p = <<part>>
    /\ \A turn \in SentTurns(it + 1) :
          /\ turn.role = "user"
          /\ i <= Len(turn.parts)
          /\ turn.parts[i] = part

Denials == {k \in EvIdx : events[k].ev = "denied"}

\* C1 (as stated): a denied invocation is never executed, its result is the
\* fixed error 'Action cancelled by user.', and the run goes on to the next
\* Model Client call, which carries that result.
C1_DeniedRunReachesNextCall ==
    \A k \in Denials :
        /\ ~HasEvent("execute", events[k].it, events[k].idx)
        /\ Carries(events[k].it, events[k].idx,
                   ResponsePart(events[k].name, CancelledResult))
        /\ RunEnded => HasEvent("generate", events[k].it + 1, 0)

\* C1 (amended): a denied invocation is never executed, the result recorded
\* for it is the fixed error 'Action cancelled by user.', the denial does not
\* end the run, and the next Model Client call of the run, when the run
\* makes one, carries that result.
C1_DenialRecordedNotExecuted ==
    \A k \in Denials :
        /\ ~HasEvent("execute", events[k].it, events[k].idx)
        /\ Carries(events[k].it, events[k].idx,
                   ResponsePart(events[k].name, CancelledResult))
        /\ k = Len(events) => pc \in {"loop", "entry"}
        /\ confirmAction /\ this_tools[events[k].name].requiresConfirmation

\* A denial was followed by the next Model Client call.
C1_Witness ==
    \E k \in Denials : HasEvent("generate", events[k].it + 1, 0)


\* C2: with the shipped registry and a confirmation hook, every execution of
\* write_file, delete_file or delete_directory comes after a confirmation
\* hook call for that same invocation that resolved to approve, and the hook
\* is never called for read_file or list_directory.
C2_ConfirmationPolicy ==
    (this_tools = tools /\ confirmAction) =>
        /\ \A k \in EvIdx :
            (events[k].ev = "execute"
             /\ events[k].name \in {"write_file", "delete_file",
                                    "delete_directory"})
            => \E i, j \in 1..(k - 1) :
                /\ i < j
                /\ events[i].ev = "confirmAction"
                /\ events[j].ev = "approved"
                /\ \A e \in {events[i], events[j]} :
                    /\ e.it = events[k].it
                    /\ e.idx = events[k].idx
                    /\ e.name = events[k].name
        /\ \A k \in EvIdx :
            events[k].ev = "confirmAction"
            => events[k].name \notin {"read_file", "list_directory"}

\* A run executed delete_file and read_file under the shipped registry with
\* a confirmation hook.
C2_Witness ==
    /\ this_tools = tools
    /\ confirmAction
    /\ \E j, k \in EvIdx :
        /\ events[j].ev = "execute" /\ events[j].name = "delete_file"
        /\ events[k].ev = "execute" /\ events[k].name = "read_file"

\* The events of round it that belong to its i-th functionCall.
EventsOf(it, i) ==
    {k \in EvIdx : events[k].it = it /\ events[k].idx = i}

\* The Part `part` carries the name of functionCall fc and the outcome the
\* history gives for the i-th functionCall of round it: cancelled when the
\* confirmation was denied, the executable's value or its formatted error
\* when it ran, the not-found error otherwise.
PartMatches(part, fc, it, i) ==
    /\ DOMAIN part = {"functionResponse"}
    /\ part.functionResponse.name = ToolNameOf(fc)
    /\ LET r == part.functionResponse.response
           ran == {k \in EventsOf(it, i) : events[k].ev = "execute"}
       IN IF HasEvent("denied", it, i) THEN ran = {} /\ r = CancelledResult
          ELSE IF ran # {}
          THEN \A k \in ran :
                  r.key = (IF events[k].ok THEN "result" ELSE "error")
          ELSE /\ r.key = "error"
               /\ r.val[1] = "Tool '"
               /\ r.val[2] = ToolNameOf(fc)

\* C3: the functionCalls of a response are handled in the order given, and
\* the user Turn appended next holds exactly one functionResponse Part per
\* functionCall, the i-th with the name and the outcome of the i-th call.
C3_ResultsInRequestOrder ==
    /\ \A j, k \in EvIdx :
        (j < k /\ events[j].it = events[k].it
         /\ events[j].idx > 0 /\ events[k].idx > 0)
        => events[j].idx <= events[k].idx
    /\ pc \in {"loop", "confirm"} =>
        /\ Len(functionResponseParts) = idx - 1
        /\ \A i \in 1..(idx - 1) :
            PartMatches(functionResponseParts[i], response.functionCalls[i],
                        iteration, i)
    /\ \A k \in EvIdx :
        (events[k].ev = "generate" /\ events[k].it > 0) =>
            LET s == events[k].sent
                user == s[Len(s)]
                model == s[Len(s) - 1]
            IN /\ model.role = "model"
               /\ user.role = "user"
               /\ Len(user.parts) = Len(model.parts)
               /\ \A i \in 1..Len(model.parts) :
                    PartMatches(user.parts[i], model.parts[i].functionCall,
                                events[k].it - 1, i)

\* A response with two functionCalls to different tools, the first denied and
\* the second executed, was answered and the answer sent to the Model Client.
C3_Witness ==
    \E k \in EvIdx :
        /\ events[k].ev = "generate" /\ events[k].it > 0
        /\ LET s == events[k].sent IN
            /\ Len(s[Len(s)].parts) = 2
            /\ s[Len(s)].parts[1].functionResponse.response = CancelledResult
            /\ s[Len(s)].parts[2].functionResponse.response.key = "result"


\* A model Turn that holds tool-invocation requests.
HasRequests(turn) ==
    /\ turn.role = "model"
    /\ \E i \in 1..Len(turn.parts) : "functionCall" \in DOMAIN turn.parts[i]

\* Turn u answers the requests of model Turn m: a user Turn with one
\* functionResponse Part per request, in the same order.
Answers(u, m) ==
    /\ u.role = "user"
    /\ Len(u.parts) = Len(m.parts)
    /\ \A i \in 1..Len(m.parts) :
        /\ "functionResponse" \in DOMAIN u.parts[i]
        /\ u.parts[i].functionResponse.name
             = ToolNameOf(m.parts[i].functionCall)

\* C4: whenever no run is in progress, every model Turn of Conversation State
\* that holds requests is immediately followed by a user Turn that answers
\* them, one functionResponse Part per request in the same order. Stated for
\* the states in which the last run returned or threw the iteration-limit
\* error: a run that a failing hook or a failing Model Client ended is left
\* out, so that the violation found is the escape hatch's.
C4_RequestsAnsweredWhenIdle ==
    (pc = "idle" /\ outcome.error \in {"", ExceededMsg}) =>
        \A k \in 1..Len(contents) :
            HasRequests(contents[k]) =>
                /\ k < Len(contents)
                /\ Answers(contents[k + 1], contents[k])

\* The Conversation State the run was called with: the first Model Client
\* call was given it plus the user Turn of the text.
GenerateEvents == {k \in EvIdx : events[k].ev = "generate"}
FirstSent == events[CHOOSE k \in GenerateEvents :
                        \A j \in GenerateEvents : k <= j].sent

\* A run(text) whose only response held no functionCalls has returned, and
\* Conversation State has not been cleared since.
ReturnedAtOnce ==
    /\ RunEnded
    /\ outcome.kind = "returned"
    /\ Cardinality(GenerateEvents) = 1
    /\ contents # <<>>

\* run returned the response the Model Client gave: one without functionCalls
\* whose content, when it has one, is the Turn appended last.
ReturnsTheResponse ==
    /\ outcome.response.functionCalls = <<>>
    /\ outcome.response.hasContent =>
         contents[Len(contents)] = ContentOf(outcome.response)
    /\ ~outcome.response.hasContent => outcome.response = EmptyResponse

\* C5 (as stated): a run(text) whose response holds no functionCalls appends
\* exactly two Turns, the user Turn of the text and a model Turn, and returns
\* the response unchanged.
C5_TwoTurnsAppended ==
    ReturnedAtOnce =>
        /\ Len(contents) = Len(FirstSent) + 1
        /\ SubSeq(contents, 1, Len(FirstSent)) = FirstSent
        /\ FirstSent[Len(FirstSent)] \in
             {[role |-> "user", parts |-> <<[text |-> t]>>] : t \in UserTexts}
        /\ contents[Len(contents)].role = "model"
        /\ ReturnsTheResponse

\* C5 (amended): such a run appends the user Turn of the text and then the
\* response's content as a model Turn, two Turns, when the response has a
\* content; when it has none only the user Turn is appended. Either way the
\* response is returned unchanged.
C5_UserTurnThenContent ==
    ReturnedAtOnce =>
        /\ Len(contents) = Len(FirstSent)
                           + (IF outcome.response.hasContent THEN 1 ELSE 0)
        /\ SubSeq(contents, 1, Len(FirstSent)) = FirstSent
        /\ FirstSent[Len(FirstSent)] \in
             {[role |-> "user", parts |-> <<[text |-> t]>>] : t \in UserTexts}
        /\ outcome.response.hasContent =>
             contents[Len(contents)].role = "model"
        /\ ReturnsTheResponse

\* A second run returned a text response at once, on top of the Turns of an
\* earlier run.
C5_Witness ==
    /\ ReturnedAtOnce
    /\ outcome.response.hasContent
    /\ Len(contents) = 4


\* C6: with no on-limit hook, a run that reaches the entry of run with the
\* iteration counter at the configured maximum throws the error 'Agent
\* exceeded maximum iterations (<maximum>)' there, and no step of the loop is
\* ever taken with the counter at or above the maximum.
C6_LimitThrowsExceeded ==
    /\ [](onMaxIterationsReached = "undefined"
          => (pc \in {"generate", "loop", "confirm"}
              => iteration < maxIterations))
    /\ [][(onMaxIterationsReached = "undefined"
           /\ pc = "entry" /\ iteration >= maxIterations)
          => (pc' = "idle"
              /\ outcome' = [kind |-> "thrown", response |-> EmptyResponse,
                             error |-> ExceededMsg, n |-> maxIterations])]_vars

\* With maximum 2 and no on-limit hook, the model asked for tools in both of
\* its responses and the run threw the iteration-limit error.
C6_Witness ==
    /\ onMaxIterationsReached = "undefined"
    /\ maxIterations = 2
    /\ Cardinality(GenerateEvents) = 2
    /\ outcome.kind = "thrown"
    /\ outcome.error = ExceededMsg

\* The error the tests expect of a run its on-limit hook stopped
\* (part_000 1028: /stopped after.*iterations by user/).
StoppedMsg == "Agent stopped by user"

\* The run threw at the escape hatch.
HitLimit == \E k \in EvIdx : events[k].ev = "throw"

\* C7: with an on-limit hook that answers stop, a run whose counter reaches
\* the maximum calls the hook with the iteration count and fails with the
\* stopped-by-user error, not with 'exceeded maximum iterations'.
C7_StopHookCalledAndStops ==
    (onMaxIterationsReached = "stop" /\ RunEnded /\ HitLimit) =>
        /\ HasEvent("onMaxIterationsReached", maxIterations, 0)
        /\ outcome.error = StoppedMsg

\* C8: with an on-limit hook that answers continue, a run whose counter
\* reaches the maximum does not fail there: the budget is extended and a
\* further Model Client call is made.
C8_ContinueHookExtendsBudget ==
    (onMaxIterationsReached = "continue" /\ RunEnded) =>
        /\ ~HitLimit
        /\ outcome.error # ExceededMsg

Failures == {k \in EvIdx : events[k].ev = "execute" /\ ~events[k].ok}

\* What the loop records for an executable that threw 'Tool failed'.
FailedPart(name) ==
    ResponsePart(name, [key |-> "error",
                        val |-> <<"Error in ", name, ": ", "Tool failed">>])

\* C10 (as stated): a failure of a tool's executable is recorded as an error
\* result of that invocation, and the run goes on to the next Model Client
\* call.
C10_FailedRunReachesNextCall ==
    \A k \in Failures :
        /\ Carries(events[k].it, events[k].idx, FailedPart(events[k].name))
        /\ RunEnded => HasEvent("generate", events[k].it + 1, 0)

\* C10 (amended): a failure of a tool's executable never ends the run: it is
\* recorded as the error result of that one invocation, the loop goes on with
\* the next functionCall or with the next call of run, and the next Model
\* Client call of the run, when the run makes one, carries that result.
C10_FailureCaughtAndRecorded ==
    \A k \in Failures :
        /\ Carries(events[k].it, events[k].idx, FailedPart(events[k].name))
        /\ k = Len(events) => pc \in {"loop", "entry"}

\* An executable threw for the first of two functionCalls, the second was
\* handled, and the next Model Client call was made.
C10_Witness ==
    \E k \in Failures :
        /\ events[k].idx = 1
        /\ HasEvent("generate", events[k].it + 1, 0)
        /\ \E turn \in SentTurns(events[k].it + 1) : Len(turn.parts) = 2


\* C11: the only faults that leave run are the iteration-budget condition
\* (exceeded, or stopped by the user) and a failure of the Model Client: no
\* failing confirmation hook, logging hook or tool makes run throw.
C11_OnlyBudgetAndTransportFaults ==
    outcome.kind = "thrown" =>
        outcome.error \in {ExceededMsg, StoppedMsg, "Model Client failure"}

\* C12: a failed Model Client call is the last thing its run does: the run
\* throws that failure, the Model Client is not called again and no tool is
\* confirmed or executed afterwards.
C12_ModelClientFailureIsTerminal ==
    \A k \in EvIdx :
        events[k].ev = "generateFailed" =>
            /\ k = Len(events)
            /\ pc = "idle"
            /\ outcome.kind = "thrown"
            /\ outcome.error = "Model Client failure"

\* The second Model Client call of a run failed, after a tool was executed.
C12_Witness ==
    \E k \in EvIdx :
        /\ events[k].ev = "generateFailed"
        /\ events[k].it = 1
        /\ HasEvent("execute", 0, 1)


\* The invocations the loop answered as not found.
Unknowns == {k \in EvIdx : events[k].ev = "notFound"}

\* The names the registry of this Agent holds, in the order of its keys.
RegisteredNames ==
    IF DOMAIN this_tools = {} THEN <<>>
    ELSE <<"read_file", "write_file", "list_directory", "delete_file",
           "delete_directory">>

\* The error result that names the requested tool and lists the registry.
UnknownPart(name) ==
    ResponsePart(name,
        [key |-> "error",
         val |-> <<"Tool '", name, "' not found. Available tools: ">>
                 \o RegisteredNames])

\* Nothing but the logging hook and the not-found answer ever happens for a
\* name that is not registered, and the answer is recorded for it.
UnknownHandled ==
    /\ \A k \in EvIdx :
        (events[k].idx > 0 /\ events[k].name \notin DOMAIN this_tools)
        => events[k].ev \in {"onToolCall", "notFound"}
    /\ \A k \in Unknowns :
        /\ events[k].name \notin DOMAIN this_tools
        /\ Carries(events[k].it, events[k].idx, UnknownPart(events[k].name))

LogCalls == {k \in EvIdx : events[k].ev = "onToolCall" /\ events[k].ok}

\* The event after the k-th is ev, for the same invocation.
NextIs(k, ev) ==
    /\ k < Len(events)
    /\ events[k + 1].ev = ev
    /\ events[k + 1].it = events[k].it
    /\ events[k + 1].idx = events[k].idx
    /\ events[k + 1].name = events[k].name

PrevIs(k, ev) ==
    /\ k > 1
    /\ events[k - 1].ev = ev
    /\ events[k - 1].it = events[k].it
    /\ events[k - 1].idx = events[k].idx
    /\ events[k - 1].name = events[k].name

\* The name is registered with the requiresConfirmation flag.
Flagged(name) ==
    name \in DOMAIN this_tools /\ this_tools[name].requiresConfirmation

\* C15: with both hooks configured, for a tool that requires confirmation the
\* logging hook is fired right after the confirmation hook approved that
\* invocation and right before the tool executes, and never for a denied
\* invocation.
C15_LoggedBetweenApprovalAndExecution ==
    (confirmAction /\ onToolCall) =>
        /\ \A k \in EvIdx :
            (events[k].ev = "onToolCall" /\ Flagged(events[k].name)) =>
                /\ PrevIs(k, "approved")
                /\ events[k].ok => NextIs(k, "execute")
        /\ \A k \in EvIdx :
            (events[k].ev = "execute" /\ Flagged(events[k].name)) =>
                PrevIs(k, "onToolCall")
        /\ \A k \in Denials :
            \A j \in EvIdx :
                (events[j].it = events[k].it /\ events[j].idx = events[k].idx)
                => events[j].ev # "onToolCall"

\* In one response one flagged invocation was approved, logged and executed
\* and another was denied.
C15_Witness ==
    /\ onToolCall
    /\ Denials # {}
    /\ \E k \in EvIdx :
        /\ events[k].ev = "approved"
        /\ NextIs(k, "onToolCall")
        /\ k + 2 <= Len(events)
        /\ events[k + 2].ev = "execute"


\* The functionResponse Parts recorded so far: those of the user Turns of
\* Conversation State and those the loop has collected.
AnswerParts ==
    LET turns == {t \in 1..Len(contents) : contents[t].role = "user"}
        ofTurn(t) == {contents[t].parts[i] : i \in 1..Len(contents[t].parts)}
        collected == {functionResponseParts[i] :
                         i \in 1..Len(functionResponseParts)}
    IN {p \in UNION {ofTurn(t) : t \in turns} \cup collected :
            "functionResponse" \in DOMAIN p}

\* C16: without a confirmation hook every requested invocation of a
\* registered tool that the loop takes up is executed, the confirmation hook
\* is never involved and no result is recorded as cancelled.
C16_NoHookExecutesAll ==
    ~confirmAction =>
        /\ \A k \in EvIdx :
            events[k].ev \notin {"confirmAction", "approved", "denied",
                                 "confirmFailed"}
        /\ \A k \in EvIdx :
            (events[k].idx > 0 /\ events[k].name \in DOMAIN this_tools)
            => HasEvent("execute", events[k].it, events[k].idx)
        /\ \A p \in AnswerParts :
            p.functionResponse.response # CancelledResult


\* C17: every top-level call of run starts with the counter at zero and the
\* counter counts the Model Client calls of that run alone: a run throws the
\* iteration-limit error after exactly maxIterations Model Client calls of
\* its own, whatever earlier runs on the same Agent did.
C17_CounterStartsAtZero ==
    /\ [](/\ pc = "entry" => iteration = Cardinality(GenerateEvents)
          /\ pc \in {"generate", "loop", "confirm"}
             => iteration = Cardinality(GenerateEvents) - 1
          /\ HitLimit => Cardinality(GenerateEvents) = maxIterations)
    /\ [][(pc = "idle" /\ pc' = "entry") => iteration' = 0]_vars

\* With maximum 1 and no hooks, a first run ended at the limit (its request
\* Turn is left unanswered) and a second run on the same Agent made its
\* Model Client call and returned.
C17_Witness ==
    /\ started = 2
    /\ maxIterations = 1
    /\ ~onToolCall /\ ~confirmAction
    /\ Len(contents) = 4
    /\ HasRequests(contents[2])
    /\ contents[3].role = "user"
    /\ Cardinality(GenerateEvents) = 1
    /\ outcome.kind = "returned"


\* s is a prefix of t.
IsPrefix(s, t) == Len(s) <= Len(t) /\ SubSeq(t, 1, Len(s)) = s

\* C18: every step of a run leaves the Conversation State it found as a
\* prefix of the one it leaves (only clearHistory, between runs, removes
\* Turns), and every Model Client call is given the whole Conversation State,
\* the Turns of earlier runs first.
C18_AppendOnly ==
    /\ [][(pc # "idle" \/ pc' # "idle") => IsPrefix(contents, contents')]_vars
    /\ [][(pc = "entry" /\ pc' = "generate") =>
            /\ IsPrefix(contents, events'[Len(events')].sent)
            /\ events'[Len(events')].sent = contents']_vars
    /\ [](pc # "idle" =>
            \A k \in GenerateEvents : IsPrefix(events[k].sent, contents))

\* A second run on the same Agent has called the Model Client with the two
\* Turns of the first run ahead of its own.
C18_Witness ==
    /\ started = 2
    /\ pc = "generate"
    /\ Len(contents) = 3
    /\ contents[2].role = "model"
    /\ \A k \in GenerateEvents : events[k].sent = contents


\* A step that hands the caller a new array: a call of getHistory.
Got == history'.held /\ ~history'.mutated /\ history' # history

\* C19: clearHistory leaves Conversation State empty in one step, whatever
\* runs came before, and leaves the configuration of the Agent as it was; a
\* getHistory that follows returns the empty sequence.
C19_ClearEmptiesAll ==
    /\ [][(pc = "idle" /\ pc' = "idle" /\ contents' # contents)
          => (contents' = <<>> /\ config' = config)]_vars
    /\ [][(Got /\ contents = <<>>) => history'.turns = <<>>]_vars

\* After a run with a tool round had returned, the history was cleared and
\* getHistory returned the empty sequence.
C19_Witness ==
    /\ pc = "idle"
    /\ outcome.kind = "returned"
    /\ Cardinality(GenerateEvents) = 2
    /\ contents = <<>>
    /\ history.held
    /\ ~history.mutated
    /\ history.turns = <<>>

\* C20: getHistory leaves Conversation State as it is and returns a new
\* array equal to it, and adding to or removing from a returned array
\* changes neither Conversation State nor what a later getHistory returns.
C20_SnapshotIsACopy ==
    /\ [][history' # history
          => (contents' = contents \/ (contents' = <<>> /\ ~history'.alias))]_vars
    /\ [][Got => (history'.turns = contents /\ ~history'.alias)]_vars
    /\ [](history.held /\ ~history.mutated /\ history.alias
          => history.turns = contents)

\* The caller changed an array it got from getHistory after a run and
\* Conversation State still holds the Turns of the run.
C20_Witness ==
    /\ history.held
    /\ history.mutated
    /\ Len(contents) >= 2
    /\ history.turns # contents

\* The file system claims are about the calls of FsSpec: a step is a call of
\* the tool named, whose args and outcome are in last afterwards.
IsCall(name) == ops' = ops + 1 /\ last'.name = name
\* The path the call recorded in l resolves to, and the contents it carries.
Target(l) == resolvePath(PathArg(l.args))
Written(l) == l.args[2].value.text
\* A string without a surrogate that lacks its partner.
WellFormed(s) ==
    \A i \in 1..Len(s.units) :
        /\ s.units[i] = "D83D" =>
               i < Len(s.units) /\ s.units[i + 1] = "DE00"
        /\ s.units[i] = "DE00" => i > 1 /\ s.units[i - 1] = "D83D"
\* A read_file step straight after a write_file that succeeded on the same
\* resolved path with contents of at most MAX_SIZE bytes.
ReadAfterWrite ==
    /\ last.name = "write_file"
    /\ last.out.ok
    /\ Size(Encode(Written(last))) <= MAX_SIZE
    /\ IsCall("read_file")
    /\ Target(last') = Target(last)

\* C21 as stated: read_file straight after a successful write_file of
\* contents within the size ceiling to the same path returns exactly the
\* contents written, whatever they are.
C21_ReadReturnsWritten ==
    [][ReadAfterWrite =>
          last'.out.ok /\ last'.out.value = Written(last)]_vars

\* C21 amended: the same for contents that are well-formed Unicode, the
\* empty string among them.
C21_ReadReturnsWellFormedWritten ==
    [][ReadAfterWrite /\ WellFormed(Written(last)) =>
          last'.out.ok /\ last'.out.value = Written(last)]_vars

\* A surrogate pair, which no file held at the start, was written and read
\* back.
C21_Witness ==
    /\ ops = 2
    /\ last.name = "read_file"
    /\ last.out.ok
    /\ last.out.value = Str(<<"D83D", "DE00">>, 0)

\* The directories above a path, the root among them.
Ancestors(p) == {SubSeq(p, 1, k) : k \in 0..(Len(p) - 1)}
\* A write_file step on a path whose parent directory does not exist, or on
\* a path that holds a file.
WriteToNewOrHeld ==
    /\ IsCall("write_file")
    /\ \/ ~existsSync(fs, dirname(Target(last')))
       \/ statSync(fs, Target(last')).kind = "file"
\* The call succeeded, every ancestor of its path is a directory and the
\* path holds a file that reads as the contents given.
WrittenInPlace ==
    /\ last'.out.ok
    /\ \A d \in Ancestors(Target(last')) : statSync(fs', d).kind = "dir"
    /\ statSync(fs', Target(last')).kind = "file"
    /\ Decode(statSync(fs', Target(last')).data) = Written(last')

\* C22 as stated: write_file on a path whose parent directories do not
\* exist, or that holds a file, succeeds, leaves every ancestor a directory
\* and the file with exactly the contents given.
C22_WriteCreatesAndReplaces == [][WriteToNewOrHeld => WrittenInPlace]_vars

\* C22 amended: the same when no ancestor of the path is a file and the
\* contents are well-formed Unicode.
C22_WriteCreatesAndReplacesWellFormed ==
    [][/\ WriteToNewOrHeld
       /\ \A d \in Ancestors(Target(last')) : statSync(fs, d).kind # "file"
       /\ WellFormed(Written(last'))
       => WrittenInPlace]_vars

\* A first write_file three levels down an empty file system made both
\* directories above the file.
C22_Witness ==
    /\ ops = 1
    /\ last.name = "write_file"
    /\ last.out.ok
    /\ Target(last) = <<<<"b">>, <<"b">>, <<"a">>>>
    /\ statSync(fs, <<<<"a">>>>).kind = "none"
    /\ statSync(fs, <<<<"b">>>>).kind = "dir"
    /\ statSync(fs, <<<<"b">>, <<"b">>>>).kind = "dir"
    /\ statSync(fs, <<<<"b">>, <<"b">>, <<"a">>>>).kind = "file"

\* The k-th parameter the tool of the call recorded in l was called with.
Given(l, k) == Param(ObjectValues(l.args), k)
\* The immediate entries of a directory.
EntriesOf(f, dir) == {n \in Names : existsSync(f, join(dir, n))}
\* A delete_directory step whose first parameter is the path of an existing
\* directory.
DeleteDirectoryOfDir ==
    /\ IsCall("delete_directory")
    /\ Given(last', 1).type = "string"
    /\ isDirectory(fs, resolvePath(Given(last', 1).path))

\* C23: delete_directory with recursive false or not passed, on a directory
\* with at least one entry, fails with "is not empty", reports the number of
\* immediate entries and leaves the whole file system as it was.
C23_NonRecursiveKeepsNonEmpty ==
    [][/\ DeleteDirectoryOfDir
       /\ Given(last', 2) \in {Undefined, BoolValue(FALSE)}
       /\ EntriesOf(fs, resolvePath(Given(last', 1).path)) # {}
       => /\ ~last'.out.ok
          /\ last'.out.kind = "is not empty"
          /\ last'.out.count =
                 Cardinality(EntriesOf(fs, resolvePath(Given(last', 1).path)))
          /\ fs' = fs]_vars

\* delete_directory without the flag was refused on the directory of three
\* entries, one of them a directory.
C23_Witness ==
    /\ last.name = "delete_directory"
    /\ Len(last.args) = 1
    /\ ~last.out.ok
    /\ last.out.count = 3
    /\ Cardinality(EntriesOf(fs, Target(last))) = 3

\* C24: delete_directory with recursive true on an existing directory
\* succeeds, leaves nothing at the directory's path or below it, and leaves
\* every other path as it was.
C24_RecursiveRemovesSubtreeOnly ==
    [][DeleteDirectoryOfDir /\ Given(last', 2) = BoolValue(TRUE)
       => /\ last'.out.ok
          /\ \A p \in Paths :
                IF Within(p, resolvePath(Given(last', 1).path))
                THEN statSync(fs', p).kind = "none"
                ELSE statSync(fs', p) = statSync(fs, p)]_vars

\* The fixture's directory, with its file, its subdirectory and the file in
\* it, was deleted recursively: only the root is left.
C24_Witness ==
    /\ ops = 1
    /\ last.name = "delete_directory"
    /\ last.out.ok
    /\ Given(last, 2) = BoolValue(TRUE)
    /\ Target(last) = <<<<"a">>>>
    /\ fs = EmptyFs

\* What read_file is to answer on the file system f for the resolved path
\* p: its conditions in their order.
ReadAnswer(f, p, out) ==
    IF ~existsSync(f, p) THEN ~out.ok /\ out.kind = "File not found"
    ELSE IF isDirectory(f, p)
    THEN ~out.ok /\ out.kind = "is a directory, not a file. Use list_directory"
    ELSE IF Size(f[p].data) > MAX_SIZE
    THEN ~out.ok /\ out.kind = "File is too large"
    ELSE out.ok /\ out.value = Decode(f[p].data)

\* C25: read_file never changes the file system and answers by its conditions
\* in order: not found for an absent path, else is a directory, else too
\* large for a size above MAX_SIZE, else the full contents (a file of
\* exactly MAX_SIZE bytes is read).
C25_ReadFileAnswersInOrder ==
    [][IsCall("read_file")
       => fs' = fs /\ ReadAnswer(fs, Target(last'), last'.out)]_vars

\* The args object with the whitespace around its path string taken away.
Bare(toolArgs) ==
    [i \in 1..Len(toolArgs) |->
        IF toolArgs[i].key \in {"file_path", "directory_path"}
        THEN Entry(toolArgs[i].key,
                   PathValue([toolArgs[i].value.path EXCEPT !.pad = FALSE]))
        ELSE toolArgs[i]]
\* A step that calls a tool with whitespace around the path string.
PaddedCall == ops' = ops + 1 /\ PathArg(last'.args).pad
\* What the same tool does on the same file system with the bare path, for
\* one of the orders the directory may be enumerated in.
BareCalls ==
    {Apply(fs, last'.name, ObjectValues(Bare(last'.args)), order) :
        order \in ReaddirOrders}

\* C26 as stated: a tool called with whitespace around the path resolves
\* the path the bare string resolves to and comes back exactly as the call
\* with the bare string does: same file system, same value or Error.
C26_WhitespaceSameOutcome ==
    [][PaddedCall
       => /\ Target(last') = resolvePath(PathArg(Bare(last'.args)))
          /\ \E bare \in BareCalls :
                fs' = bare.fs /\ last'.out = bare.out]_vars

\* C26 amended: the same, but for the path string the message repeats,
\* which is the string as it was given.
C26_WhitespaceSameOutcomeButEcho ==
    [][PaddedCall
       => /\ Target(last') = resolvePath(PathArg(Bare(last'.args)))
          /\ \E bare \in BareCalls :
                /\ fs' = bare.fs
                /\ last'.out = [bare.out EXCEPT !.echo = last'.out.echo]
                /\ bare.out.echo \in {NoPath, PathArg(Bare(last'.args))}
                /\ last'.out.echo \in {NoPath, PathArg(last'.args)}]_vars

\* read_file of a path given with whitespace around it returned the
\* contents of the file.
C26_Witness ==
    /\ last.name = "read_file"
    /\ PathArg(last.args).pad
    /\ last.out.ok
    /\ last.out.value = Hello

\* The parameters of each tool's schema, in the order they are declared.
Declared(name) ==
    CASE name = "write_file" -> <<"file_path", "contents">>
      [] name = "delete_directory" -> <<"directory_path", "recursive">>
      [] name = "list_directory" -> <<"directory_path">>
      [] OTHER -> <<"file_path">>
\* The value an args object has for a key, undefined if it has none.
ByName(toolArgs, key) ==
    IF \E i \in 1..Len(toolArgs) : toolArgs[i].key = key
    THEN toolArgs[CHOOSE i \in 1..Len(toolArgs) : toolArgs[i].key = key].value
    ELSE Undefined
\* The values of an args object in the declared order of the tool's schema.
InDeclaredOrder(name, toolArgs) ==
    [k \in 1..Len(Declared(name)) |-> ByName(toolArgs, Declared(name)[k])]

\* C27: a tool is executed with its arguments in the declared order of its
\* schema whatever the order of the keys of the args object: every call
\* comes back as the tool's function does on the values taken by name.
C27_ArgsInDeclaredOrder ==
    [][ops' = ops + 1
       => \E order \in ReaddirOrders :
             LET byName == Apply(fs, last'.name,
                                 InDeclaredOrder(last'.name, last'.args),
                                 order)
             IN  fs' = byName.fs /\ last'.out = byName.out]_vars

\* C28: a call of run that finds the iteration counter at the maximum ends
\* there: it leaves Conversation State as it was and adds no Model Client
\* call, hook call or tool execution to the run's history, only the throw;
\* so with maximum 0 Conversation State stays as it was constructed and the
\* Model Client is never called.
C28_RejectionDoesNoWork ==
    /\ [][(pc = "entry" /\ iteration >= maxIterations)
          => /\ contents' = contents
             /\ pc' = "idle"
             /\ outcome'.kind = "thrown"
             /\ events' = Append(events, events'[Len(events')])
             /\ events'[Len(events')].ev = "throw"]_vars
    /\ [](maxIterations = 0 =>
            /\ contents = <<>>
            /\ GenerateEvents = {}
            /\ RunEnded => outcome.kind = "thrown")

\* run(text) on an Agent with maximum 0 threw the iteration-limit error and
\* Conversation State is still empty.
C28_Witness ==
    /\ maxIterations = 0
    /\ started > 0
    /\ RunEnded
    /\ outcome.error = ExceededMsg
    /\ contents = <<>>

\* The executions of tools in the run's history.
Executions == {k \in EvIdx : events[k].ev = "execute"}
\* The execution recorded as event k has its Part in Conversation State:
\* the next round's call appended a user Turn whose Part at the place of
\* the functionCall answers for the tool, and the Turn is still there.
ResultAppended(k) ==
    \E j \in GenerateEvents :
        /\ events[j].it = events[k].it + 1
        /\ LET n == Len(events[j].sent)
               turn == events[j].sent[n]
           IN  /\ n <= Len(contents)
               /\ contents[n] = turn
               /\ turn.role = "user"
               /\ events[k].idx <= Len(turn.parts)
               /\ "functionResponse" \in DOMAIN turn.parts[events[k].idx]
               /\ turn.parts[events[k].idx].functionResponse.name
                    = events[k].name

AllResultsAppended == \A k \in Executions : ResultAppended(k)

\* C29: at the step that ends a run, by returning or by throwing, every
\* tool execution the run made has its functionResponse Part in Conversation
\* State.
C29_ExecutionsRecordedAtEnd ==
    [][(pc # "idle" /\ pc' = "idle") => AllResultsAppended']_vars

\* The Turns are user, model, user, model, ... from the first on.
Alternates(turns) ==
    \A k \in 1..Len(turns) :
        turns[k].role = IF k % 2 = 1 THEN "user" ELSE "model"
EndsWithUser(turns) == turns # <<>> /\ turns[Len(turns)].role = "user"

\* C30 as stated: in every reachable state the Turns of Conversation State
\* strictly alternate user, model, ... starting with a user Turn, whatever
\* way the runs so far ended.
C30_StrictAlternation == Alternates(contents)

\* C30 amended: every step keeps the alternation but the one that appends
\* the user Turn of a new run(text) to a Conversation State ending in a user
\* Turn; a run that ends with the iteration-budget error leaves Conversation
\* State ending in a model Turn, and one that ends with a Model Client
\* failure, or returns a response without content, leaves it ending in a
\* user Turn.
C30_AlternationUnlessLeftOnUser ==
    /\ [][(Alternates(contents)
           /\ ~(pc = "entry" /\ iteration = 0 /\ EndsWithUser(contents)))
          => Alternates(contents')]_vars
    /\ [][(Alternates(contents) /\ pc = "entry"
           /\ iteration >= maxIterations /\ iteration > 0)
          => Alternates(contents') /\ ~EndsWithUser(contents')]_vars
    /\ [][(pc = "generate" /\ pc' = "idle"
           /\ (outcome'.kind = "thrown" \/ ~outcome'.response.hasContent))
          => EndsWithUser(contents')]_vars

\* A run ended with the iteration-budget error after one tool call, the next
\* run returned a text, and the four Turns alternate.
C30_Witness ==
    /\ maxIterations = 1
    /\ ~onToolCall
    /\ ~confirmAction
    /\ started = 2
    /\ requested = 1
    /\ RunEnded
    /\ outcome.kind = "returned"
    /\ Len(contents) = 4
    /\ Alternates(contents)

\* The events that end the handling of a functionCall, and the ones with
\* which a confirmation hook's call comes back.
Handlings == {"execute", "denied", "notFound"}
Handled(it, i) ==
    \E k \in EventsOf(it, i) : events[k].ev \in Handlings
Answered == {"approved", "denied", "confirmFailed"}
CountOf(evs) == Cardinality({k \in EvIdx : events[k].ev \in evs})

\* C31: within one response the functionCalls are taken one after the
\* other. Whatever happens for a functionCall (confirmation, logging,
\* execution) happens when the Parts of all earlier ones are recorded,
\* after the earlier one was handled, and nothing happens for it after it
\* was handled; at most one call of the confirmation hook is awaited, and
\* only while the loop waits for it; and the Model Client is called for the
\* next round only when every functionCall of the response was handled.
C31_OneInvocationAtATime ==
    /\ [][(pc \in {"loop", "confirm"} /\ events' # events)
          => /\ Len(functionResponseParts) = idx - 1
             /\ \A k \in (Len(events) + 1)..Len(events') :
                   events'[k].it = iteration /\ events'[k].idx = idx]_vars
    /\ [](\A k \in EvIdx :
            /\ events[k].idx > 1 =>
                  \E j \in 1..(k - 1) :
                      /\ events[j].it = events[k].it
                      /\ events[j].idx = events[k].idx - 1
                      /\ events[j].ev \in Handlings
            /\ events[k].ev \in Handlings =>
                  \A j \in EvIdx :
                      (j > k /\ events[j].it = events[k].it)
                      => events[j].idx # events[k].idx)
    /\ [](CountOf({"confirmAction"}) - CountOf(Answered)
            = IF pc = "confirm" THEN 1 ELSE 0)
    /\ [](\A k \in GenerateEvents :
            events[k].it > 0 =>
                LET s == events[k].sent
                    asked == s[Len(s) - 1]
                IN  /\ HasRequests(asked)
                    /\ \A i \in 1..Len(asked.parts) :
                          Handled(events[k].it - 1, i))

\* A response asked for two invocations, the first was approved by the
\* confirmation hook and executed, the second was handled, and the Model
\* Client was called for the next round.
C31_Witness ==
    /\ HasEvent("approved", 0, 1)
    /\ HasEvent("execute", 0, 1)
    /\ Handled(0, 2)
    /\ HasEvent("generate", 1, 0)

\* The calls of the confirmation hook made for the i-th functionCall of
\* round it.
ConfirmCalls(evs, it, i) ==
    {k \in 1..Len(evs) :
        evs[k].ev = "confirmAction" /\ evs[k].it = it /\ evs[k].idx = i}

\* The i-th functionCall of the response at hand names a registered tool
\* that requires confirmation.
FlaggedCall(i) == Flagged(ToolNameOf(response.functionCalls[i]))

\* C34: with a confirmation hook configured, (1) when the handling of a
\* response is over, because the run goes on to the next round or ends, the
\* hook was called exactly once for each of its functionCalls that names a
\* confirmation-required tool, under that functionCall's name, and never for
\* another functionCall; (2) a confirmation-required tool is executed only
\* right after the approval of the hook's call for the same functionCall;
\* (3) after a denial the loop goes on with the next functionCall of the
\* response, or with the next round when it was the last.
C34_ConfirmedOncePerFlaggedInvocation ==
    /\ [][(confirmAction /\ pc \in {"loop", "confirm"}
           /\ pc' \in {"entry", "idle"})
          => \A i \in 1..Len(response.functionCalls) :
                /\ Cardinality(ConfirmCalls(events', iteration, i))
                     = IF FlaggedCall(i) THEN 1 ELSE 0
                /\ \A k \in ConfirmCalls(events', iteration, i) :
                      events'[k].name = ToolNameOf(response.functionCalls[i])]_vars
    /\ [](confirmAction =>
            \A k \in EvIdx :
                (/\ events[k].ev = "execute"
                 /\ this_tools[events[k].name].requiresConfirmation)
                => \E j \in 1..(k - 1) :
                      /\ events[j].ev = "approved"
                      /\ events[j].it = events[k].it
                      /\ events[j].idx = events[k].idx
                      /\ events[j].name = events[k].name
                      /\ \A m \in (j + 1)..(k - 1) :
                            events[m].ev = "onToolCall"
                      /\ j > 1
                      /\ events[j - 1].ev = "confirmAction"
                      /\ events[j - 1].it = events[k].it
                      /\ events[j - 1].idx = events[k].idx)
    /\ [][(pc = "confirm" /\ Len(events') > Len(events)
           /\ events'[Len(events')].ev = "denied")
          => IF idx < Len(response.functionCalls)
             THEN pc' = "loop" /\ idx' = idx + 1
             ELSE pc' = "entry"]_vars

\* The Turns the run in flight has appended: Conversation State from the
\* user Turn of its first Model Client call on.
AppendedOf(evs, turns) ==
    LET calls == {k \in 1..Len(evs) : evs[k].ev = "generate"}
        first == CHOOSE k \in calls : \A j \in calls : k <= j
    IN  SubSeq(turns, Len(evs[first].sent), Len(turns))
CallsOf(evs) == Cardinality({k \in 1..Len(evs) : evs[k].ev = "generate"})

\* The first 2k+1 appended Turns are the user Turn of the text and k pairs
\* of a model Turn with requests and the user Turn that answers them.
TextThenPairs(added, k) ==
    /\ Len(added) >= 2 * k + 1
    /\ added[1].role = "user"
    /\ \E t \in UserTexts : added[1].parts = <<[text |-> t]>>
    /\ \A j \in 1..k :
          /\ HasRequests(added[2 * j])
          /\ Answers(added[2 * j + 1], added[2 * j])

\* The step by which a top-level run returns; iteration is the number of
\* rounds of tool invocations it went through.
RunReturns == pc = "generate" /\ pc' = "idle" /\ outcome'.kind = "returned"

\* C35 (as stated): a run(text) that returns after k rounds has made k+1
\* Model Client calls and appended 2k+2 Turns: the user Turn of the text, k
\* pairs of model Turn with requests and user Turn with results, and the
\* final model Turn.
C35_CallsAndTurnsOfARun ==
    [][RunReturns =>
         LET added == AppendedOf(events', contents')
             k == iteration
         IN  /\ CallsOf(events') = k + 1
             /\ Len(added) = 2 * k + 2
             /\ TextThenPairs(added, k)
             /\ added[2 * k + 2] = ContentOf(outcome'.response)]_vars

\* C35 (amended): the same, with the final model Turn appended only when
\* the final response has content: 2k+2 Turns then, 2k+1 otherwise.
C35_CallsAndTurnsOfARunWithContent ==
    [][RunReturns =>
         LET added == AppendedOf(events', contents')
             k == iteration
             final == outcome'.response
         IN  /\ CallsOf(events') = k + 1
             /\ TextThenPairs(added, k)
             /\ Len(final.functionCalls) = 0
             /\ IF final.hasContent
                THEN /\ Len(added) = 2 * k + 2
                     /\ added[2 * k + 2] = ContentOf(final)
                ELSE Len(added) = 2 * k + 1]_vars

\* A run has returned after one round of two tool invocations: two Model
\* Client calls and four Turns of its own.
C35_Witness ==
    /\ RunEnded
    /\ outcome.kind = "returned"
    /\ outcome.response.hasContent
    /\ CallsOf(events) = 2
    /\ Len(AppendedOf(events, contents)) = 4
    /\ TextThenPairs(AppendedOf(events, contents), 1)
    /\ Len(AppendedOf(events, contents)[2].parts) = 2

\* The user Turn run appends for its input (agent.ts 73-77).
InputTurn ==
    [role |-> "user",
     parts |-> IF input.isText THEN <<[text |-> input.text]>> ELSE input.parts]

\* The list holds the definition of every entry of the registry, once per
\* entry.
AllSchemas(list) ==
    /\ Len(list) = Cardinality(DOMAIN this_tools)
    /\ \A n \in DOMAIN this_tools :
          \E i \in 1..Len(list) : list[i] = this_tools[n].definition

\* C36: every Model Client call of a run is made at the step that appends
\* the user Turn of the run's input, with Conversation State as that step
\* leaves it, the Agent's system instruction (the configured one, or the
\* default when none was configured) and one list holding the schema of
\* every registered tool; without a registry, or with an empty one, no list
\* is passed.
C36_RequestOfEveryCall ==
    [][(Len(events') > Len(events) /\ events'[Len(events')].ev = "generate")
       => LET call == events'[Len(events')]
          IN  /\ pc = "entry" /\ pc' = "generate"
              /\ Len(events') = Len(events) + 1
              /\ call.sent = Append(contents, InputTurn)
              /\ call.sent = contents'
              /\ call.config.systemInstruction = systemInstruction
              /\ systemInstruction \in {CustomInstruction, DefaultInstruction}
              /\ IF toolsDefined /\ DOMAIN this_tools # {}
                 THEN /\ Len(call.config.tools) = 1
                      /\ AllSchemas(call.config.tools[1].functionDeclarations)
                 ELSE call.config.tools = <<>>]_vars
    /\ [][(pc = "entry" /\ pc' = "generate")
          => (Len(events') > Len(events)
              /\ events'[Len(events')].ev = "generate")]_vars

\* The second Model Client call of a run of an Agent with a system
\* instruction of its own and the registry of tools.ts: it was given the
\* five schemas and the Turns up to the tool results.
C36_Witness ==
    /\ systemInstruction = CustomInstruction
    /\ this_tools = tools
    /\ \E k \in GenerateEvents :
          /\ events[k].it = 1
          /\ Len(events[k].sent) >= 3
          /\ Len(events[k].config.tools[1].functionDeclarations) = 5
          /\ events[k].config.systemInstruction = CustomInstruction

\* message.includes(s) for one of the strings.
IncludesAny(message, strings) == \E x \in strings : Includes(message, x)

\* The three messages of the translation that name a known kind of failure.
NotFoundMessage(args) ==
    <<"Error: File or directory not found at '", PathOf(args),
      "'. Please verify the path exists.">>
PermissionMessage ==
    <<"Error: Permission denied. Cannot access the specified path.">>
ExpectedFileMessage == <<"Error: Expected a file but found a directory.">>

\* The translation with the substrings the claim names.
TranslationAsStated(message, name, args) ==
    IF IncludesAny(message, {"not found", "no such file"})
    THEN NotFoundMessage(args)
    ELSE IF IncludesAny(message, {"permission denied"})
    THEN PermissionMessage
    ELSE IF IncludesAny(message, {"is a directory"})
    THEN ExpectedFileMessage
    ELSE <<"Error in ", name, ": ">> \o message

\* The translation with the substrings that decide.
TranslationByCode(message, name, args) ==
    IF IncludesAny(message, {"ENOENT", "no such file"})
    THEN NotFoundMessage(args)
    ELSE IF IncludesAny(message, {"EACCES", "permission denied"})
    THEN PermissionMessage
    ELSE IF IncludesAny(message, {"EISDIR"})
    THEN ExpectedFileMessage
    ELSE <<"Error in ", name, ": ">> \o message

\* The step that ends the handling of a functionCall records for it: the
\* translation of the raw message when the executable threw, the value when
\* it returned, and the fixed results, untranslated, for a denial and for an
\* unknown tool.
HandlingStep ==
    /\ pc \in {"loop", "confirm"}
    /\ Len(events') > Len(events)
    /\ events'[Len(events')].ev \in Handlings
RecordsTranslated(Translation(_, _, _)) ==
    LET e == events'[Len(events')]
        part == functionResponseParts'[Len(functionResponseParts')]
        result == part.functionResponse.response
    IN  /\ Len(functionResponseParts') = Len(functionResponseParts) + 1
        /\ part.functionResponse.name = toolName
        /\ e.ev = "execute" /\ ~e.ok =>
              result = [key |-> "error",
                        val |-> Translation(e.raw, toolName,
                                    response.functionCalls[idx].args)]
        /\ e.ev = "execute" /\ e.ok => result.key = "result"
        /\ e.ev = "denied" => result = CancelledResult
        /\ e.ev = "notFound" => result = NotFoundResult(toolName)

\* C37 (as stated): a failed execution is recorded with the translation that
\* looks for "not found" or "no such file", "permission denied" and "is a
\* directory", applied once; a denial and an unknown tool are recorded
\* untranslated.
C37_TranslationOfFailures ==
    [][HandlingStep => RecordsTranslated(TranslationAsStated)]_vars

\* C37 (amended): the same with the substrings "ENOENT" or "no such file",
\* "EACCES" or "permission denied", and "EISDIR".
C37_TranslationOfFailuresByCode ==
    [][HandlingStep => RecordsTranslated(TranslationByCode)]_vars

\* Executions that failed with "File not found: ..." and with Node's EISDIR
\* message were recorded in one run.
C37_Witness ==
    /\ \E k \in EvIdx :
          /\ events[k].ev = "execute" /\ ~events[k].ok
          /\ Includes(events[k].raw, "not found")
    /\ \E k \in EvIdx :
          /\ events[k].ev = "execute" /\ ~events[k].ok
          /\ Includes(events[k].raw, "EISDIR")
    /\ pc = "generate"
    /\ iteration > 0

\* The names advertised to the model by a Model Client call.
Advertised(call) ==
    IF call.config.tools = <<>> THEN <<>>
    ELSE [i \in 1..Len(call.config.tools[1].functionDeclarations) |->
            call.config.tools[1].functionDeclarations[i].name]

\* C38: an Agent that was constructed has a registry in which no two entries
\* declare the same name, and every Model Client call advertises each name
\* once, a name under which dispatch (toolName in this.tools) finds a tool.
C38_DeclaredNamesUnique ==
    /\ \A a, b \in DOMAIN this_tools :
          a # b => this_tools[a].definition.name
                     # this_tools[b].definition.name
    /\ \A k \in GenerateEvents :
          LET names == Advertised(events[k])
          IN  /\ \A i, j \in 1..Len(names) : i # j => names[i] # names[j]
              /\ \A i \in 1..Len(names) : Registered(names[i])

\* A name in lower case, and the match of validatePath: one of the two
\* lower-cased names contains the other.
Lowered(s) == [i \in 1..Len(s) |-> LowerChar(s[i])]
Similar(n, base) ==
    \/ includes(Lowered(n), Lowered(base))
    \/ includes(Lowered(base), Lowered(n))
\* The last tool call failed because its path does not exist.
MissedPath == last.out.kind \in {"File not found", "Directory not found"}

\* C39: a not-found failure is about a path that does not exist, and it
\* carries a suggestion exactly if the parent of the resolved path exists
\* and has an immediate entry whose lower-cased name contains the lower-cased
\* basename asked for or is contained in it; the suggestion is the parent
\* joined with the first such name of the directory listing, an existing
\* entry of the parent itself and of no deeper directory.
C39_SuggestionIsFirstSimilarEntry ==
    MissedPath =>
        LET p == resolvePath(Given(last, 1).path)
            dir == dirname(p)
            listing == last.listing
            hits == {i \in 1..Len(listing) : Similar(listing[i], basename(p))}
            suggestion == last.out.suggestion
        IN  /\ ~existsSync(fs, p)
            /\ {listing[i] : i \in 1..Len(listing)} = EntriesOf(fs, dir)
            /\ (suggestion # <<>>) <=>
                  /\ existsSync(fs, dir)
                  /\ \E n \in EntriesOf(fs, dir) : Similar(n, basename(p))
            /\ suggestion # <<>> =>
                  /\ Len(suggestion) = 1
                  /\ \E i \in hits :
                        /\ \A j \in hits : i <= j
                        /\ suggestion[1] = join(dir, listing[i])
                  /\ dirname(suggestion[1]) = dir
                  /\ existsSync(fs, suggestion[1])

\* A path was missed whose parent holds two similar entries, similar only
\* without regard to case, listed in the order that is not the alphabetical
\* one; the first of the listing was suggested.
C39_Witness ==
    /\ MissedPath
    /\ LET p == resolvePath(Given(last, 1).path)
       IN  /\ basename(p) = <<"A", "b">>
           /\ last.listing = <<<<"b">>, <<"a">>>>
           /\ last.out.suggestion = <<join(dirname(p), <<"b">>)>>

\* The run calls in flight.
InFlight == {r \in Runs : frames[r].pc # "idle"}

\* A model Turn of Conversation State that does not directly follow a user
\* Turn of the run call that appended it.
Displaced(k) ==
    /\ contents[k].role = "model"
    /\ ~(k > 1 /\ contents[k - 1].role = "user"
               /\ owners[k - 1] = owners[k])

\* C32: nothing keeps a second run call from starting while one is in
\* flight (it can start whenever it is not itself in flight and the
\* environment has a call left), every Turn a run call appends goes to the
\* end of the one Conversation State, after the Turns the other call has
\* appended, and every Model Client call is given that whole state, the
\* other call's Turns included, up to the user Turn it has just appended.
C32_RunCallsInterleave ==
    /\ [](\A r \in Runs :
            (frames[r].pc = "idle" /\ Work < MaxWork)
            => \A t \in UserTexts : ENABLED RunStarts(r, t))
    /\ [][\A r \in Runs :
            (frames'[r].pc = "generate" /\ frames'[r] # frames[r])
            => /\ frames'[r].sent = contents'
               /\ owners'[Len(owners')] = r
               /\ contents'[Len(contents')].role = "user"
               /\ Len(owners') = Len(contents')
               /\ \A k \in 1..Len(owners) : owners[k] = owners'[k]
               /\ \A k \in 1..Len(contents) :
                     frames'[r].sent[k] = contents[k]]_vars

\* Two run calls were started one after the other and Conversation State
\* is user, user, model, model: the model Turn of each call follows a Turn
\* of the other call, and the call whose model Turn holds a request is
\* still in flight, waiting for the confirmation hook.
C32_Witness ==
    /\ Len(contents) = 4
    /\ <<contents[1].role, contents[2].role, contents[3].role,
         contents[4].role>> = <<"user", "user", "model", "model">>
    /\ owners[1] # owners[2]
    /\ owners[3] # owners[4]
    /\ Displaced(3) /\ Displaced(4)
    /\ \E r \in InFlight : frames[r].pc = "confirm"

\* C33: Conversation State, when it is not empty, begins with a user Turn,
\* and holds exactly the Turns appended since the last clearHistory(), one
\* for each entry of the record of who appended, also when clearHistory()
\* is called while a run call waits for the Model Client or for the
\* confirmation hook.
C33_BeginsWithUserAfterClear ==
    /\ Len(contents) = Len(owners)
    /\ contents # <<>> => contents[1].role = "user"
====
